---------------------------- MODULE Spec2Model ----------------------------
(***************************************************************************)
(* ReVanced build helper: the patch-listing parsers, the catalog filter,  *)
(* the selection resolver and the patch-command builder of build.py,      *)
(* patcher.py and run.py.                                                  *)
(*                                                                         *)
(* Python strings are sequences of one-character strings; a literal the   *)
(* program itself writes ("--ei", "-O") and the header keyword of a       *)
(* listing line ("Key:", "Options:") is one element.                       *)
(* Python values that may be None, an int or a str are tagged records.     *)
(***************************************************************************)
EXTENDS Integers, Sequences, FiniteSets, TLC

VARIABLES
    pc,               \* position of the component under check
    call,             \* arguments of the function being called
    cmd,              \* list returned by build_patch_command
    builder,          \* which build_patch_command produced cmd
    text,             \* listing text handed to a parser, as its lines
    blocks,           \* blocks cut by the splitter
    entries,          \* records parsed from the blocks, before the filter
    patches,          \* list a parser returns
    selected_ids,     \* raw choices handed to the resolver
    result,           \* selections the resolver has built so far
    asked,            \* questions put to the operator so far
    fs,               \* files and directories on disk: path |-> content
    metadata,         \* CacheManager.metadata: key |-> entry
    worker            \* the task submitted to the executor of run.py

vars ==
    <<pc, call, cmd, builder, text, blocks, entries, patches, selected_ids, result, asked,
      fs, metadata, worker>>

cmdVars == <<call, cmd, builder>>
listVars == <<text, blocks, entries, patches>>
resolveVars == <<selected_ids, result, asked>>
ioVars == <<fs, metadata, worker>>

----------------------------------------------------------------------------
(* Bounds of the checked input sets *)

MaxSelections == 2
MaxExtraArgs == 1

----------------------------------------------------------------------------
(* Python values *)

PyNone == [t |-> "none", n |-> 0, s |-> <<>>]
PyInt(n) == [t |-> "int", n |-> n, s |-> <<>>]
PyStr(s) == [t |-> "str", n |-> 0, s |-> s]
PyBool(b) == [t |-> "bool", n |-> IF b THEN 1 ELSE 0, s |-> <<>>]

\* bool(v): None, 0 and "" are falsy
Truthy(v) ==
    CASE v.t = "none" -> FALSE
      [] v.t \in {"int", "bool"} -> v.n # 0
      [] OTHER -> v.s # <<>>

Digit(d) == <<"0", "1", "2", "3", "4", "5", "6", "7", "8", "9">>[d + 1]

RECURSIVE DecStr(_)
DecStr(n) == IF n < 10 THEN <<Digit(n)>> ELSE DecStr(n \div 10) \o <<Digit(n % 10)>>

\* str(v), also what an f-string writes for v
Str(v) ==
    CASE v.t = "none" -> <<"N", "o", "n", "e">>
      [] v.t = "int" -> DecStr(v.n)
      [] v.t = "bool" -> IF v.n = 1 THEN <<"T", "r", "u", "e">> ELSE <<"F", "a", "l", "s", "e">>
      [] OTHER -> v.s

----------------------------------------------------------------------------
(* Python str methods *)

IsSpace(c) == c \in {" ", "\t", "\n"}
AllSpace(s) == \A i \in 1..Len(s) : IsSpace(s[i])

RECURSIVE LStrip(_)
LStrip(s) == IF s # <<>> /\ IsSpace(s[1]) THEN LStrip(Tail(s)) ELSE s

RECURSIVE RStrip(_)
RStrip(s) == IF s # <<>> /\ IsSpace(s[Len(s)]) THEN RStrip(SubSeq(s, 1, Len(s) - 1)) ELSE s

\* s.strip()
Strip(s) == RStrip(LStrip(s))

UpperAlpha == <<"A", "B", "C", "D", "E", "F", "G", "H", "I", "J", "K", "L", "M",
                "N", "O", "P", "Q", "R", "S", "T", "U", "V", "W", "X", "Y", "Z">>
LowerAlpha == <<"a", "b", "c", "d", "e", "f", "g", "h", "i", "j", "k", "l", "m",
                "n", "o", "p", "q", "r", "s", "t", "u", "v", "w", "x", "y", "z">>

LowerChar(c) ==
    IF \E i \in 1..26 : UpperAlpha[i] = c
    THEN LowerAlpha[CHOOSE i \in 1..26 : UpperAlpha[i] = c]
    ELSE c

\* s.lower()
Lower(s) == [i \in 1..Len(s) |-> LowerChar(s[i])]

IsDigit(c) == c \in {"0", "1", "2", "3", "4", "5", "6", "7", "8", "9"}
IsLetter(c) == \E i \in 1..26 : UpperAlpha[i] = c \/ LowerAlpha[i] = c

DigitVal(c) == CHOOSE d \in 0..9 : Digit(d) = c

\* int(s) of a string of decimal digits
RECURSIVE ParseInt(_)
ParseInt(s) ==
    IF s = <<>> THEN 0 ELSE 10 * ParseInt(SubSeq(s, 1, Len(s) - 1)) + DigitVal(s[Len(s)])

\* s.split(sep) for a one-character separator
RECURSIVE SplitOn(_, _)
SplitOn(s, sep) ==
    IF \A i \in 1..Len(s) : s[i] # sep THEN <<s>>
    ELSE LET i == CHOOSE j \in 1..Len(s) : s[j] = sep /\ \A m \in 1..(j - 1) : s[m] # sep
         IN  <<SubSeq(s, 1, i - 1)>> \o SplitOn(SubSeq(s, i + 1, Len(s)), sep)

\* x in lst
InList(x, lst) == \E i \in 1..Len(lst) : lst[i] = x

SeqsUpTo(S, n) == UNION {[1..k -> S] : k \in 0..n}

\* an entry of an options dict (dicts keep insertion order: a sequence of entries)
Opt(k, v) == [k |-> k, v |-> v]
\* a selection {'by': ..., 'value': ..., 'options': {...}}
Sel(by, value, options) == [by |-> by, value |-> value, options |-> options]

----------------------------------------------------------------------------
(* String literals of the command builders: one element each *)

sJava == <<"java">>
sJar == <<"-jar">>
sPatch == <<"patch">>
sP == <<"-p">>
sExclusive == <<"--exclusive">>
sEi == <<"--ei">>
sE == <<"-e">>
sDashO == <<"-O">>
sEq == <<"=">>
sO == <<"-o">>
sKeystore == <<"--keystore">>
sKeystorePassword == <<"--keystore-password">>
sKeystoreEntryAlias == <<"--keystore-entry-alias">>
sKeystoreEntryPassword == <<"--keystore-entry-password">>

JVM_OPTS == << <<"-XX:+UseG1GC">>, <<"-XX:+ParallelRefProcEnabled">>,
               <<"-XX:MaxGCPauseMillis=200">>, <<"-Xmx4G">>, <<"-Xms512M">> >>

----------------------------------------------------------------------------
(* build.build_patch_command *)

\* mutant: only None is treated as "no value"
OptionTokenNoneOnly(k, v) ==
    IF v.t = "none" THEN sDashO \o k ELSE sDashO \o k \o sEq \o Str(v)

\* the -O token of one options entry (build.py)
OptionToken(k, v) ==
    IF v.t = "none" \/ v = PyStr(<<>>)
    THEN sDashO \o k
    ELSE sDashO \o k \o sEq \o Str(v)

RECURSIVE OptionTokens(_)
OptionTokens(opts) ==
    IF opts = <<>> THEN <<>>
    ELSE <<OptionToken(opts[1].k, opts[1].v)>> \o OptionTokens(Tail(opts))

\* mutant: the name selector is used for every kind
SelectionTokensNameOnly(sel) ==
    <<sE, Str(sel.value)>> \o OptionTokens(sel.options)

\* one iteration of "for sel in selected_with_opts"
SelectionTokens(sel) ==
    (IF sel.by = "idx"
     THEN <<sEi, Str(sel.value)>>
     ELSE <<sE, Str(sel.value)>>)
    \o OptionTokens(sel.options)

\* mutant: every selector first, the -O tokens of all selections after them
RECURSIVE SelectorsThenOptions(_)
SelectorsThenOptions(sels) ==
    IF sels = <<>> THEN <<>>
    ELSE SelectionTokens(Sel(sels[1].by, sels[1].value, <<>>))
         \o SelectorsThenOptions(Tail(sels))
         \o OptionTokens(sels[1].options)

RECURSIVE SelectionsTokens(_)
SelectionsTokens(sels) ==
    IF sels = <<>> THEN <<>>
    ELSE SelectionTokens(sels[1]) \o SelectionsTokens(Tail(sels))

\* mutant: only None is treated as "not given"
SigningPairNoneOnly(flag, v) == IF v.t # "none" THEN <<flag, v.s>> ELSE <<>>

\* "if keystore_path: cmd.extend(['--keystore', keystore_path])" and its likes
SigningPair(flag, v) == IF Truthy(v) THEN <<flag, v.s>> ELSE <<>>

SigningTokens(sign) ==
    SigningPair(sKeystore, sign[1])
    \o SigningPair(sKeystorePassword, sign[2])
    \o SigningPair(sKeystoreEntryAlias, sign[3])
    \o SigningPair(sKeystoreEntryPassword, sign[4])

BuildPatchCommand(cli_jar, rvp_path, apk_path, out_apk, exclusive, selected_with_opts, sign, extra_args) ==
    <<sJava, sJar, cli_jar, sPatch, sP, rvp_path>>
    \o (IF exclusive THEN <<sExclusive>> ELSE <<>>)
    \o SelectionsTokens(selected_with_opts)
    \o SigningTokens(sign)
    \o extra_args
    \o <<sO, out_apk, apk_path>>

----------------------------------------------------------------------------
(* patcher.build_patch_command *)

PatcherOptionToken(k, v) ==
    IF Truthy(v) THEN sDashO \o k \o sEq \o Str(v) ELSE sDashO \o k

RECURSIVE PatcherOptionTokens(_)
PatcherOptionTokens(opts) ==
    IF opts = <<>> THEN <<>>
    ELSE <<PatcherOptionToken(opts[1].k, opts[1].v)>> \o PatcherOptionTokens(Tail(opts))

PatcherSelectionTokens(sel) ==
    (IF sel.by = "idx"
     THEN <<sEi, Str(sel.value)>>
     ELSE <<sE, Str(sel.value)>>)
    \o PatcherOptionTokens(sel.options)

RECURSIVE PatcherSelectionsTokens(_)
PatcherSelectionsTokens(sels) ==
    IF sels = <<>> THEN <<>>
    ELSE PatcherSelectionTokens(sels[1]) \o PatcherSelectionsTokens(Tail(sels))

PatcherBuildPatchCommand(cli, rvp, apk, output, exclusive, selected, sign) ==
    <<sJava>> \o JVM_OPTS \o <<sJar, cli, sPatch, sP, rvp>>
    \o (IF exclusive THEN <<sExclusive>> ELSE <<>>)
    \o PatcherSelectionsTokens(selected)
    \o SigningTokens(sign)
    \o <<sO, output, apk>>

----------------------------------------------------------------------------
(* Inputs of the command builders *)

tFormat == <<"f", "o", "r", "m", "a", "t">>
tPng == <<"p", "n", "g">>
tStrip == <<"s", "t", "r", "i", "p">>
tSize == <<"s", "i", "z", "e">>
tOutApk == <<"o", "u", "t", ".", "a", "p", "k">>
tInApk == <<"i", "n", ".", "a", "p", "k">>
tCliJar == <<"c", ".", "j", "a", "r">>
tRvp == <<"p", ".", "r", "v", "p">>
tRemoveAds == <<"R", "e", "m", "o", "v", "e", " ", "a", "d", "s">>

SelectionPool ==
    { Sel("idx", PyInt(3), <<Opt(tFormat, PyStr(tPng))>>),
      Sel("idx", PyInt(12), <<>>),
      Sel("name", PyStr(tRemoveAds), <<Opt(tStrip, PyNone)>>),
      Sel("name", PyStr(tRemoveAds), <<Opt(tStrip, PyStr(<<>>)), Opt(tFormat, PyStr(tPng))>>),
      Sel("idx", PyInt(3), <<Opt(tFormat, PyNone), Opt(tSize, PyStr(<<"1">>))>>) }

SignValue(i) == PyStr(<<"k", Digit(i)>>)

\* each parameter absent or given, independently; or one of them the empty string
SigningPool ==
    { [i \in 1..4 |-> IF i \in S THEN SignValue(i) ELSE PyNone] : S \in SUBSET (1..4) }
    \cup { [i \in 1..4 |-> IF i = j THEN PyStr(<<>>) ELSE SignValue(i)] : j \in 1..4 }

ExtraArgPool == { <<"-", "-", "p", "u", "r", "g", "e">>, <<"-", "f">> }

CallPool ==
    [ cli_jar : {tCliJar}, rvp_path : {tRvp}, apk_path : {tInApk}, out_apk : {tOutApk},
      exclusive : BOOLEAN,
      selected : SeqsUpTo(SelectionPool, MaxSelections),
      sign : SigningPool,
      extra_args : SeqsUpTo(ExtraArgPool, MaxExtraArgs) ]

NoCmd == << <<"<no command>">> >>

\* values of the variables a component does not use
IdleCmd == call = <<>> /\ cmd = NoCmd /\ builder = "none"
IdleList == text = <<>> /\ blocks = <<>> /\ entries = <<>> /\ patches = <<>>
IdleResolve == selected_ids = <<>> /\ result = <<>> /\ asked = <<>>
IdleIO == fs = {} /\ metadata = <<>> /\ worker = "none"

InitCmd ==
    /\ IdleIO
    /\ pc = "cmd_args"
    /\ call \in CallPool
    /\ cmd = NoCmd
    /\ builder = "none"
    /\ IdleList
    /\ IdleResolve

\* cmd = build_patch_command(...) of build.py
CallBuildPatchCommand ==
    /\ pc = "cmd_args"
    /\ cmd' = BuildPatchCommand(call.cli_jar, call.rvp_path, call.apk_path, call.out_apk,
                                call.exclusive, call.selected, call.sign, call.extra_args)
    /\ builder' = "build"
    /\ pc' = "cmd_done"
    /\ UNCHANGED <<call, listVars, resolveVars, ioVars>>

\* cmd = build_patch_command(...) of patcher.py, which takes no extra arguments
CallPatcherBuildPatchCommand ==
    /\ pc = "cmd_args"
    /\ call.extra_args = <<>>
    /\ cmd' = PatcherBuildPatchCommand(call.cli_jar, call.rvp_path, call.apk_path,
                                       call.out_apk, call.exclusive, call.selected, call.sign)
    /\ builder' = "patcher"
    /\ pc' = "cmd_done"
    /\ UNCHANGED <<call, listVars, resolveVars, ioVars>>

NextCmd == CallBuildPatchCommand \/ CallPatcherBuildPatchCommand

SpecCmd == InitCmd /\ [][NextCmd]_vars

----------------------------------------------------------------------------
(* Listing text: a sequence of lines; a line is its indentation, its header *)
(* keyword ("" for free text) and the rest of the line                       *)

Line(ind, h, v) == [ind |-> ind, h |-> h, v |-> v]

\* the characters of a line
Render(l) == l.ind \o (IF l.h = "" THEN <<>> ELSE <<l.h>>) \o l.v

IsBlankLine(l) == AllSpace(Render(l))

\* re.match of a header-only pattern such as ^\s*Options?\s*:\s*$ on one line
HdrOnly(l, H) == l.h \in H /\ AllSpace(l.v)

\* re.match of ^\s*<header>\s*(.+?)\s*$ on one line: the rest must hold a character
HdrValue(l, H) == l.h \in H /\ l.v # <<>>

\* index of the first non-blank line after line i, 0 when there is none
NextNonBlank(L, i) ==
    IF \E j \in (i + 1)..Len(L) : ~IsBlankLine(L[j])
    THEN CHOOSE j \in (i + 1)..Len(L) :
             ~IsBlankLine(L[j]) /\ \A m \in (i + 1)..(j - 1) : IsBlankLine(L[m])
    ELSE 0

sTrue == <<"t", "r", "u", "e">>
sFalse == <<"f", "a", "l", "s", "e">>

CaptureOk(c, kind) ==
    CASE kind = "digits" -> c # <<>> /\ \A i \in 1..Len(c) : IsDigit(c[i])
      [] kind = "bool" -> c \in {sTrue, sFalse}
      [] OTHER -> TRUE

\* group(1).strip() of ^\s*<header>\s*(...)\s*$ searched in a block, tried at header
\* line i: \s* runs over line ends, so a header with a blank rest captures the next
\* non-blank line. <<c>> when the pattern matches at line i, <<>> when it does not.
CaptureAt(L, i, kind) ==
    IF Strip(L[i].v) # <<>>
    THEN IF CaptureOk(Strip(L[i].v), kind) THEN <<Strip(L[i].v)>> ELSE <<>>
    ELSE LET j == NextNonBlank(L, i)
         IN  IF j # 0
             THEN IF CaptureOk(Strip(Render(L[j])), kind)
                  THEN <<Strip(Render(L[j]))>> ELSE <<>>
             ELSE IF kind = "any"
                     /\ (L[i].v # <<>> \/ \E m \in (i + 1)..Len(L) : Render(L[m]) # <<>>)
                  THEN << <<>> >>
                  ELSE <<>>

\* re.search: the first header line at which the pattern matches
SearchFirst(L, H, kind) ==
    LET hits == {i \in 1..Len(L) : L[i].h \in H /\ CaptureAt(L, i, kind) # <<>>}
    IN  IF hits = {} THEN <<>>
        ELSE CaptureAt(L, CHOOSE i \in hits : \A j \in hits : i <= j, kind)

----------------------------------------------------------------------------
(* Patch Block Splitter (build.parse_patches_from_text, patcher.parse_patches) *)

\* idx_pat matches with its "Index:" on line i
IsIndexHeader(T, i) == T[i].h = "Index:" /\ CaptureAt(T, i, "digits") # <<>>

\* the line that holds the digits of the header on line i
DigitsLine(T, i) == IF Strip(T[i].v) # <<>> THEN i ELSE NextNonBlank(T, i)

\* first line at which the search resumes after the match of the header on line i
\* (the match ends before the last line end of the white space after the digits);
\* Len(T) + 1 when the match runs to the end of the text
ResumeLine(T, i) ==
    LET d == DigitsLine(T, i)
        n == NextNonBlank(T, d)
    IN  IF n = 0 THEN Len(T) + 1
        ELSE IF n - 1 > d /\ Render(T[n - 1]) = <<>> THEN n - 1 ELSE n

\* m.start() of every match found from line a on, as line numbers
RECURSIVE MatchStarts(_, _)
MatchStarts(T, a) ==
    LET hdrs == {i \in a..Len(T) : IsIndexHeader(T, i)}
    IN  IF hdrs = {} THEN <<>>
        ELSE LET i == CHOOSE h \in hdrs : \A g \in hdrs : h <= g
                 p == CHOOSE q \in a..i :
                          /\ \A m \in q..(i - 1) : IsBlankLine(T[m])
                          /\ \A r \in a..(q - 1) : \E m \in r..(i - 1) : ~IsBlankLine(T[m])
             IN  <<p>> \o MatchStarts(T, ResumeLine(T, i))

\* mutant: the first block starts at the top of the text
SplitBlocksFromTop(T) ==
    LET st == MatchStarts(T, 1)
    IN  IF st = <<>> THEN <<T>>
        ELSE [k \in 1..Len(st) |->
                 SubSeq(T, IF k = 1 THEN 1 ELSE st[k], IF k < Len(st) THEN st[k + 1] - 1 ELSE Len(T))]

\* text[start:end] for every match, or [text] without a match (build.py)
SplitBlocks(T) ==
    LET st == MatchStarts(T, 1)
    IN  IF st = <<>> THEN <<T>>
        ELSE [k \in 1..Len(st) |->
                 SubSeq(T, st[k], IF k < Len(st) THEN st[k + 1] - 1 ELSE Len(T))]

\* block.strip("\n"): leading and trailing empty lines removed
RECURSIVE StripNewlines(_)
StripNewlines(B) ==
    IF B = <<>> THEN B
    ELSE IF Render(B[1]) = <<>> THEN StripNewlines(Tail(B))
    ELSE IF Render(B[Len(B)]) = <<>> THEN StripNewlines(SubSeq(B, 1, Len(B) - 1))
    ELSE B

----------------------------------------------------------------------------
(* Patch Block Parser of build.parse_patches_from_text *)

\* d.setdefault(k, []) on a dict kept as its entries in insertion order
SetDefault(d, k) == IF \E i \in 1..Len(d) : d[i].k = k THEN d ELSE Append(d, [k |-> k, v |-> <<>>])

\* d[k].append(x)
DictAppend(d, k, x) ==
    [i \in 1..Len(d) |-> IF d[i].k = k THEN [k |-> k, v |-> Append(d[i].v, x)] ELSE d[i]]

DictKeys(d) == {d[i].k : i \in 1..Len(d)}

\* [p.strip() for p in value.split(',') if p.strip()]
RECURSIVE StripNonEmpty(_)
StripNonEmpty(parts) ==
    IF parts = <<>> THEN <<>>
    ELSE (IF Strip(parts[1]) # <<>> THEN <<Strip(parts[1])>> ELSE <<>>)
         \o StripNonEmpty(Tail(parts))

\* the loop over pkgs of the "Packages:" line: append when absent, setdefault always
RECURSIVE AddPackages(_, _)
AddPackages(e, pkgs) ==
    IF pkgs = <<>> THEN e
    ELSE AddPackages(
             [e EXCEPT !.packages = IF InList(pkgs[1], @) THEN @ ELSE Append(@, pkgs[1]),
                       !.compatible_versions = SetDefault(@, pkgs[1])],
             Tail(pkgs))

OptPy(c) == IF c = <<>> THEN PyNone ELSE PyStr(c[1])

\* the entry as filled in before the line scan
EntryOfBlock(block) ==
    LET mi == SearchFirst(block, {"Index:"}, "digits")
        mn == SearchFirst(block, {"Name:"}, "any")
        md == SearchFirst(block, {"Description:"}, "any")
        me == SearchFirst(block, {"Enabled:"}, "bool")
        mp == SearchFirst(block, {"Packages:", "Package:"}, "any")
        e0 == [index |-> IF mi = <<>> THEN PyNone ELSE PyInt(ParseInt(mi[1])),
               name |-> OptPy(mn),
               description |-> OptPy(md),
               enabled |-> IF me = <<>> THEN PyNone ELSE PyBool(me[1] = sTrue),
               packages |-> <<>>,
               compatible_versions |-> <<>>,
               options_struct |-> <<>>,
               options_lines |-> <<>>,
               is_universal |-> FALSE,
               raw |-> StripNewlines(block)]
    IN  IF mp = <<>> THEN e0 ELSE AddPackages(e0, StripNonEmpty(SplitOn(mp[1], ",")))

\* the locals of the line scan, with the entry being filled
ScanInit(block) ==
    [entry |-> EntryOfBlock(block), i |-> 0,
     in_options |-> FALSE, in_possible_values |-> FALSE, cur_opt |-> <<>>,
     in_compat |-> FALSE, cur_pkg |-> PyNone, in_compat_versions |-> FALSE]

NewOpt(key) ==
    [key |-> key, default |-> PyNone, type |-> PyNone, required |-> PyNone,
     title |-> PyNone, description |-> PyNone, possible_values |-> <<>>]

\* flush_opt of build.py: the open schema is appended when its key is not empty
FlushOpt(st) ==
    IF st.cur_opt # <<>> /\ st.cur_opt[1].key # <<>>
    THEN [st EXCEPT !.entry.options_struct = Append(@, st.cur_opt[1]), !.cur_opt = <<>>]
    ELSE [st EXCEPT !.cur_opt = <<>>]

\* the branch "if in_options:" for one line, after options_lines was extended
ScanOptionLine(st, line) ==
    IF HdrValue(line, {"Key:"})
    THEN [FlushOpt(st) EXCEPT !.cur_opt = <<NewOpt(Strip(line.v))>>,
                              !.in_possible_values = FALSE]
    ELSE IF st.cur_opt = <<>> THEN st
    ELSE IF HdrValue(line, {"Default:"})
    THEN [st EXCEPT !.cur_opt[1].default = PyStr(Strip(line.v))]
    ELSE IF HdrValue(line, {"Type:"})
    THEN [st EXCEPT !.cur_opt[1].type = PyStr(Strip(line.v))]
    ELSE IF line.h = "Required:" /\ Strip(line.v) \in {sTrue, sFalse}
    THEN [st EXCEPT !.cur_opt[1].required = PyBool(Strip(line.v) = sTrue)]
    ELSE IF HdrValue(line, {"Title:"})
    THEN [st EXCEPT !.cur_opt[1].title = PyStr(Strip(line.v))]
    ELSE IF HdrValue(line, {"Description:"})
    THEN [st EXCEPT !.cur_opt[1].description = PyStr(Strip(line.v))]
    ELSE IF HdrOnly(line, {"Possible values:"})
    THEN [st EXCEPT !.in_possible_values = TRUE]
    ELSE IF st.in_possible_values /\ Strip(Render(line)) # <<>>
    THEN [st EXCEPT !.cur_opt[1].possible_values = Append(@, Strip(Render(line)))]
    ELSE st

\* the branch "if in_compat:" for one line
\* ScanCompatLine without "in_compat_versions = False" on a Package: line
ScanCompatLineKeepVersions(st, line) ==
    IF HdrValue(line, {"Package:", "Package name:"})
    THEN LET pkg == Strip(line.v)
         IN  [st EXCEPT !.cur_pkg = PyStr(pkg),
                        !.entry.packages =
                            IF pkg # <<>> /\ ~InList(pkg, @) THEN Append(@, pkg) ELSE @,
                        !.entry.compatible_versions = SetDefault(@, pkg)]
    ELSE IF HdrOnly(line, {"Compatible versions:"})
    THEN [st EXCEPT !.in_compat_versions = TRUE]
    ELSE IF st.in_compat_versions /\ Truthy(st.cur_pkg) /\ Strip(Render(line)) # <<>>
    THEN [st EXCEPT !.entry.compatible_versions = DictAppend(@, st.cur_pkg.s, Strip(Render(line)))]
    ELSE st

ScanCompatLine(st, line) ==
    IF HdrValue(line, {"Package:", "Package name:"})
    THEN LET pkg == Strip(line.v)
         IN  [st EXCEPT !.cur_pkg = PyStr(pkg),
                        !.entry.packages =
                            IF pkg # <<>> /\ ~InList(pkg, @) THEN Append(@, pkg) ELSE @,
                        !.entry.compatible_versions = SetDefault(@, pkg),
                        !.in_compat_versions = FALSE]
    ELSE IF HdrOnly(line, {"Compatible versions:"})
    THEN [st EXCEPT !.in_compat_versions = TRUE]
    ELSE IF st.in_compat_versions /\ Truthy(st.cur_pkg) /\ Strip(Render(line)) # <<>>
    THEN [st EXCEPT !.entry.compatible_versions = DictAppend(@, st.cur_pkg.s, Strip(Render(line)))]
    ELSE st

\* one iteration of "while i < len(lines)": every branch advances i by one
ScanLine(st, line) ==
    LET nxt ==
        IF HdrOnly(line, {"Options:", "Option:"})
        THEN [FlushOpt(st) EXCEPT !.in_options = TRUE, !.in_possible_values = FALSE]
        ELSE IF HdrOnly(line, {"Compatible packages:"})
        THEN [FlushOpt(st) EXCEPT !.in_compat = TRUE, !.in_compat_versions = FALSE,
                                  !.cur_pkg = PyNone, !.in_options = FALSE,
                                  !.in_possible_values = FALSE]
        ELSE IF st.in_options
        THEN ScanOptionLine(
                 IF Strip(Render(line)) # <<>>
                 THEN [st EXCEPT !.entry.options_lines = Append(@, Strip(Render(line)))]
                 ELSE st,
                 line)
        ELSE IF st.in_compat
        THEN ScanCompatLine(st, line)
        ELSE st
    IN  [nxt EXCEPT !.i = st.i + 1]

\* after the loop: flush_opt(), is_universal, and the entry is complete
FinishEntry(st) ==
    LET f == FlushOpt(st)
    IN  [f.entry EXCEPT !.is_universal = (Len(f.entry.packages) = 0)]

RECURSIVE ScanAll(_, _)
ScanAll(st, lines) ==
    IF st.i >= Len(lines) THEN st ELSE ScanAll(ScanLine(st, lines[st.i + 1]), lines)

\* the body of "for block in blocks" for a block that is not skipped
ParseBlock(block) == FinishEntry(ScanAll(ScanInit(block), block))

\* mutant: a block without an index is dropped instead of giving a record
RECURSIVE ParseBlocksIndexedOnly(_)
ParseBlocksIndexedOnly(bs) ==
    IF bs = <<>> THEN <<>>
    ELSE (IF StripNewlines(bs[1]) = <<>> \/ EntryOfBlock(bs[1]).index = PyNone
          THEN <<>> ELSE <<ParseBlock(bs[1])>>)
         \o ParseBlocksIndexedOnly(Tail(bs))

\* "for block in blocks": blocks whose raw text is empty are skipped
RECURSIVE ParseBlocks(_)
ParseBlocks(bs) ==
    IF bs = <<>> THEN <<>>
    ELSE (IF StripNewlines(bs[1]) = <<>> THEN <<>> ELSE <<ParseBlock(bs[1])>>)
         \o ParseBlocks(Tail(bs))

----------------------------------------------------------------------------
(* Patch Catalog Filter *)

\* [p.lower() for p in packages]
LowerAll(pkgs) == [i \in 1..Len(pkgs) |-> Lower(pkgs[i])]

\* mutant: universal records pass whatever include_universal says
KeepEntryAnyUniversal(e, tp, include_universal) ==
    InList(tp, LowerAll(e.packages)) \/ e.is_universal

\* the test of the filter loop, tp being target.strip().lower()
KeepEntry(e, tp, include_universal) ==
    InList(tp, LowerAll(e.packages)) \/ (include_universal /\ e.is_universal)

RECURSIVE FilterLoop(_, _, _)
FilterLoop(es, tp, include_universal) ==
    IF es = <<>> THEN <<>>
    ELSE (IF KeepEntry(es[1], tp, include_universal) THEN <<es[1]>> ELSE <<>>)
         \o FilterLoop(Tail(es), tp, include_universal)

\* mutant: the first record that passes the test is left out
FilterPatchesDropFirst(es, target, include_univ) ==
    LET kept == FilterLoop(es, Lower(Strip(target)), include_univ)
    IN  IF kept = <<>> THEN kept ELSE Tail(kept)

\* patcher._filter_patches, and the "if target_package:" body of build.py
FilterPatches(es, target, include_univ) == FilterLoop(es, Lower(Strip(target)), include_univ)

\* build.parse_patches_from_text; target_package is None or a str
ParsePatchesFromText(txt, target_package, include_universal) ==
    LET es == ParseBlocks(SplitBlocks(txt))
    IN  IF Truthy(target_package)
        THEN FilterPatches(es, target_package.s, include_universal)
        ELSE es

----------------------------------------------------------------------------
(* patcher.parse_patches and patcher._parse_patch_block *)

\* the characters of a block: every line ends with a line end
RECURSIVE JoinLines(_)
JoinLines(L) == IF L = <<>> THEN <<>> ELSE Render(L[1]) \o <<"\n">> \o JoinLines(Tail(L))

IsIdentChar(c) == IsLetter(c) \/ IsDigit(c) \/ c = "_"

\* end of the run [a-z0-9_]* that starts at position p
RECURSIVE IdentRunEnd(_, _)
IdentRunEnd(s, p) == IF p <= Len(s) /\ IsIdentChar(s[p]) THEN IdentRunEnd(s, p + 1) ELSE p - 1

\* end of (?:\.[a-z][a-z0-9_]*)* read after position e
RECURSIVE DottedEnd(_, _)
DottedEnd(s, e) ==
    IF e + 2 <= Len(s) /\ s[e + 1] = "." /\ IsLetter(s[e + 2])
    THEN DottedEnd(s, IdentRunEnd(s, e + 3))
    ELSE e

\* end of a match of [a-z][a-z0-9_]*(?:\.[a-z][a-z0-9_]*)+ at position p, 0 without one
PkgMatchEnd(s, p) ==
    IF ~IsLetter(s[p]) THEN 0
    ELSE LET e1 == IdentRunEnd(s, p + 1)
             e2 == DottedEnd(s, e1)
         IN  IF e2 > e1 THEN e2 ELSE 0

\* pkg_pattern.findall(block), re.IGNORECASE
RECURSIVE FindAllPkgs(_, _)
FindAllPkgs(s, p) ==
    IF p > Len(s) THEN <<>>
    ELSE LET e == PkgMatchEnd(s, p)
         IN  IF e = 0 THEN FindAllPkgs(s, p + 1)
             ELSE <<SubSeq(s, p, e)>> \o FindAllPkgs(s, e + 1)

\* the loop "if ... p not in seen: seen.append(p)"
RECURSIVE Dedup(_, _)
Dedup(seen, xs) ==
    IF xs = <<>> THEN seen
    ELSE Dedup(IF InList(xs[1], seen) THEN seen ELSE Append(seen, xs[1]), Tail(xs))

DescStopHeaders == {"Enabled:", "Options:", "Index:", "Name:", "Packages:", "Compatible packages:"}

\* the multi-line description of patcher._parse_patch_block: from the text after the
\* first "Description:" to the next line that starts with a stop header, stripped
PatcherDescription(L) ==
    LET ds == {i \in 1..Len(L) : L[i].h = "Description:"}
    IN  IF ds = {} THEN PyNone
        ELSE LET i == CHOOSE d \in ds : \A g \in ds : d <= g
                 j == IF Strip(L[i].v) # <<>> THEN i ELSE NextNonBlank(L, i)
             IN  IF j = 0 THEN PyStr(<<>>)
                 ELSE LET stops == {z \in (j + 1)..Len(L) : L[z].h \in DescStopHeaders}
                          z == IF stops = {} THEN Len(L) + 1
                               ELSE CHOOSE y \in stops : \A g \in stops : y <= g
                          first == IF j = i THEN L[i].v ELSE Render(L[j])
                      IN  PyStr(Strip(first \o <<"\n">> \o JoinLines(SubSeq(L, j + 1, z - 1))))

RECURSIVE EmptyVersions(_)
EmptyVersions(pkgs) ==
    IF pkgs = <<>> THEN <<>>
    ELSE SetDefault(EmptyVersions(SubSeq(pkgs, 1, Len(pkgs) - 1)), pkgs[Len(pkgs)])

\* mutant: is_universal is left at the value the entry was created with
PatcherParseBlockStale(block) ==
    LET mi == SearchFirst(block, {"Index:"}, "digits")
        me == SearchFirst(block, {"Enabled:"}, "bool")
        pkgs == Dedup(<<>>, FindAllPkgs(JoinLines(block), 1))
    IN  [index |-> IF mi = <<>> THEN PyNone ELSE PyInt(ParseInt(mi[1])),
         name |-> OptPy(SearchFirst(block, {"Name:"}, "any")),
         description |-> PatcherDescription(block),
         enabled |-> IF me = <<>> THEN PyNone ELSE PyBool(me[1] = sTrue),
         packages |-> pkgs,
         compatible_versions |-> EmptyVersions(pkgs),
         options_struct |-> <<>>,
         is_universal |-> FALSE,
         raw |-> Strip(JoinLines(block))]

PatcherParseBlock(block) ==
    LET mi == SearchFirst(block, {"Index:"}, "digits")
        me == SearchFirst(block, {"Enabled:"}, "bool")
        pkgs == Dedup(<<>>, FindAllPkgs(JoinLines(block), 1))
    IN  [index |-> IF mi = <<>> THEN PyNone ELSE PyInt(ParseInt(mi[1])),
         name |-> OptPy(SearchFirst(block, {"Name:"}, "any")),
         description |-> PatcherDescription(block),
         enabled |-> IF me = <<>> THEN PyNone ELSE PyBool(me[1] = sTrue),
         packages |-> pkgs,
         compatible_versions |-> EmptyVersions(pkgs),
         options_struct |-> <<>>,
         is_universal |-> (Len(pkgs) = 0),
         raw |-> Strip(JoinLines(block))]

\* [_parse_patch_block(block) for block in blocks if block.strip()]
RECURSIVE PatcherParseBlocks(_)
PatcherParseBlocks(bs) ==
    IF bs = <<>> THEN <<>>
    ELSE (IF Strip(JoinLines(bs[1])) = <<>> THEN <<>> ELSE <<PatcherParseBlock(bs[1])>>)
         \o PatcherParseBlocks(Tail(bs))

\* patcher.parse_patches
PatcherParsePatches(txt, target_pkg, include_universal) ==
    IF MatchStarts(txt, 1) = <<>> THEN <<>>
    ELSE LET es == PatcherParseBlocks(SplitBlocks(txt))
         IN  IF Truthy(target_pkg) THEN FilterPatches(es, target_pkg.s, include_universal)
             ELSE es

----------------------------------------------------------------------------
(* run.list_patches and run.parse_block *)

\* the longest prefix of c without white space: what (\S+) takes
RECURSIVE FirstToken(_)
FirstToken(c) == IF c = <<>> \/ IsSpace(c[1]) THEN <<>> ELSE <<c[1]>> \o FirstToken(Tail(c))

RECURSIVE DigitPrefix(_)
DigitPrefix(c) == IF c = <<>> \/ ~IsDigit(c[1]) THEN <<>> ELSE <<c[1]>> \o DigitPrefix(Tail(c))

\* the characters of a line with a two-word header keyword written as its words,
\* for patterns that read a header as plain text
HeaderWords(h) ==
    CASE h = "" -> <<>>
      [] h = "Possible values:" -> <<"Possible", " ", "values:">>
      [] h = "Compatible packages:" -> <<"Compatible", " ", "packages:">>
      [] h = "Compatible versions:" -> <<"Compatible", " ", "versions:">>
      [] h = "Package name:" -> <<"Package", " ", "name:">>
      [] OTHER -> <<h>>
RenderWords(l) == l.ind \o HeaderWords(l.h) \o l.v

\* line on which the text after "<header>\s*" of line i starts, 0 when only white
\* space follows to the end of the block
ValueLine(L, i) == IF LStrip(L[i].v) # <<>> THEN i ELSE NextNonBlank(L, i)

\* that text, to the end of its line
ValueText(L, i) ==
    LET j == ValueLine(L, i)
    IN  IF j = 0 THEN <<>> ELSE IF j = i THEN LStrip(L[i].v) ELSE LStrip(RenderWords(L[j]))

\* re.search(r'Index:\s*(\d+)', block)
RunIndex(L) ==
    LET hits == {i \in 1..Len(L) : L[i].h = "Index:" /\ DigitPrefix(ValueText(L, i)) # <<>>}
    IN  IF hits = {} THEN PyNone
        ELSE PyInt(ParseInt(DigitPrefix(ValueText(L, CHOOSE i \in hits : \A j \in hits : i <= j))))

StartsWithWord(c, w) == Len(c) >= Len(w) /\ Lower(SubSeq(c, 1, Len(w))) = w

\* re.search(r'Enabled:\s*(true|false)', block, re.I | re.M), False without a match
RunEnabled(L) ==
    LET ok(i) == StartsWithWord(ValueText(L, i), sTrue) \/ StartsWithWord(ValueText(L, i), sFalse)
        hits == {i \in 1..Len(L) : L[i].h = "Enabled:" /\ ok(i)}
    IN  IF hits = {} THEN PyBool(FALSE)
        ELSE PyBool(StartsWithWord(ValueText(L, CHOOSE i \in hits : \A j \in hits : i <= j), sTrue))

sUnknown == <<"U", "n", "k", "n", "o", "w", "n">>

\* the token (\S+) reads after the header of line i, and the line it stands on
TokenAt(L, i) == FirstToken(ValueText(L, i))
\* only white space follows that token on its line
TokenEndsLine(L, i) == AllSpace(SubSeq(ValueText(L, i), Len(TokenAt(L, i)) + 1, Len(ValueText(L, i))))

\* "\s*\n\t<header>" read after the token of line i: the next non-blank line, which
\* must be one tab and the header; 0 when the text does not continue so
TabLineAfter(L, i, h) ==
    LET j == ValueLine(L, i)
        t == IF j = 0 THEN 0 ELSE NextNonBlank(L, j)
    IN  IF j # 0 /\ TokenAt(L, i) # <<>> /\ TokenEndsLine(L, i) /\ t # 0
           /\ L[t].ind = <<"\t">> /\ L[t].h = h /\ TokenAt(L, t) # <<>>
        THEN t ELSE 0

\* re.finditer(r'Key:\s*(\S+)\s*\n\tType:\s*(\S+)(?:\s*\n\tDefault:\s*(\S+))?', block)
\* from line a on: the options {'key': ..., 'default': ... or ''}
RECURSIVE RunOptions(_, _)
RunOptions(L, a) ==
    LET keys == {i \in a..Len(L) : L[i].h = "Key:" /\ TabLineAfter(L, i, "Type:") # 0}
    IN  IF keys = {} THEN <<>>
        ELSE LET i == CHOOSE k \in keys : \A g \in keys : k <= g
                 t == TabLineAfter(L, i, "Type:")
                 d == TabLineAfter(L, t, "Default:")
                 last == ValueLine(L, IF d # 0 THEN d ELSE t)
             IN  <<[key |-> TokenAt(L, i), default |-> IF d # 0 THEN TokenAt(L, d) ELSE <<>>]>>
                 \o RunOptions(L, last + 1)

\* pkgs = [p.lower() for p in re.findall(..., block, re.I)]
RunPackages(L) == LowerAll(FindAllPkgs(JoinLines(L), 1))

\* run.parse_block: <<entry>>, or <<>> for None
RunParseBlock(block, pkg) ==
    LET pkgs == RunPackages(block)
        mn == SearchFirst(block, {"Name:"}, "any")
    IN  IF pkgs # <<>> /\ ~InList(Lower(pkg), pkgs) THEN <<>>
        ELSE <<[index |-> RunIndex(block),
                name |-> IF mn = <<>> THEN PyStr(sUnknown) ELSE PyStr(mn[1]),
                enabled |-> RunEnabled(block),
                packages |-> pkgs,
                universal |-> (Len(pkgs) = 0),
                options |-> RunOptions(block, 1)]>>

\* the blocks run.list_patches cuts: a line that starts with "Index:" opens a block
RECURSIVE RunBlocks(_, _)
RunBlocks(lines, block) ==
    IF lines = <<>> THEN (IF block = <<>> THEN <<>> ELSE <<block>>)
    ELSE IF lines[1].h = "Index:"
    THEN (IF block = <<>> THEN <<>> ELSE <<block>>) \o RunBlocks(Tail(lines), <<lines[1]>>)
    ELSE RunBlocks(Tail(lines), Append(block, lines[1]))

RECURSIVE RunParseBlocks(_, _)
RunParseBlocks(bs, pkg) ==
    IF bs = <<>> THEN <<>>
    ELSE RunParseBlock(bs[1], pkg) \o RunParseBlocks(Tail(bs), pkg)

\* run.list_patches over the lines the listing command prints
RunListPatches(lines, pkg) == RunParseBlocks(RunBlocks(lines, <<>>), pkg)

----------------------------------------------------------------------------
(* The listing parsers as state machines: the text is split, its blocks are *)
(* parsed, the records are filtered                                         *)

\* bounds of the listing texts
MaxRecords == 3
MaxOptionLines == 4
MaxSplitLines == 4

tAB == <<"a", ".", "b">>
tAC == <<"A", ".", "c">>
tAD == <<"a", ".", "d">>

IndexLine(d) == Line(<<>>, "Index:", <<" ", d>>)
PackagesLine(v) == Line(<<>>, "Packages:", <<" ">> \o v)
CompatHeader == Line(<<>>, "Compatible packages:", <<>>)
PackageLine(v) == Line(<<"\t">>, "Package:", <<" ">> \o v)

\* blocks of a listing: no package, one, several, in the line layout, in the section
\* layout, in both, and the same package declared twice
CatalogBlockPool ==
    { <<IndexLine("1"), Line(<<>>, "Name:", <<" ", "x">>)>>,
      <<IndexLine("2"), PackagesLine(tAB)>>,
      <<IndexLine("3"), PackagesLine(tAB \o <<",", " ">> \o tAC)>>,
      <<IndexLine("4"), CompatHeader, PackageLine(tAC)>>,
      <<IndexLine("5"), PackagesLine(tAB), CompatHeader, PackageLine(tAB), PackageLine(tAD)>>,
      <<IndexLine("6"), PackagesLine(tAB \o <<",">> \o tAB)>> }

RECURSIVE Concat(_)
Concat(ss) == IF ss = <<>> THEN <<>> ELSE ss[1] \o Concat(Tail(ss))

CatalogTexts == {Concat(bs) : bs \in SeqsUpTo(CatalogBlockPool, MaxRecords)}

\* lines of an Options section
OptionLinePool ==
    { Line(<<>>, "Options:", <<>>),
      Line(<<"\t">>, "Key:", <<" ">> \o tSize),
      Line(<<"\t">>, "Key:", <<" ">> \o tFormat),
      Line(<<"\t">>, "Key:", <<" ">>),
      Line(<<"\t">>, "Key:", <<>>),
      Line(<<"\t">>, "Default:", <<" ">> \o tPng),
      Line(<<"\t">>, "Type:", <<" ", "S">>),
      Line(<<"\t">>, "Possible values:", <<>>),
      CompatHeader }

OptionTexts == {<<IndexLine("1")>> \o b : b \in SeqsUpTo(OptionLinePool, MaxOptionLines)}

\* lines around index headers: headers with the digits on the line, on a later
\* line, or missing; a line of digits; empty, blank and other lines
SplitLinePool ==
    { IndexLine("1"),
      Line(<<>>, "Index:", <<>>),
      Line(<<>>, "Index:", <<" ", "x">>),
      Line(<<>>, "", <<"7">>),
      Line(<<>>, "", <<>>),
      Line(<<" ">>, "", <<>>),
      Line(<<>>, "Name:", <<" ", "x">>) }

SplitTexts == SeqsUpTo(SplitLinePool, MaxSplitLines)

\* target_package / target_pkg: absent, empty, or a package name as typed
TargetPool == {PyNone, PyStr(<<>>), PyStr(tAB), PyStr(<<" ", "A", ".", "C", " ">>)}
\* pkg of run.list_patches
RunPkgPool == {tAB, <<"A", ".", "C">>, <<"q", ".", "q">>}

InitListing(texts) ==
    /\ IdleIO
    /\ pc = "text"
    /\ text \in texts
    /\ blocks = <<>>
    /\ entries = <<>>
    /\ patches = <<>>
    /\ IdleCmd
    /\ IdleResolve

InitCatalog == InitListing(CatalogTexts)
InitOptions == InitListing(OptionTexts)
InitSplit == InitListing(SplitTexts)

\* build.parse_patches_from_text, lines 173-182
BuildSplit ==
    /\ pc = "text"
    /\ blocks' = SplitBlocks(text)
    /\ pc' = "build_blocks"
    /\ UNCHANGED <<text, entries, patches, cmdVars, resolveVars, ioVars>>

\* build.parse_patches_from_text, lines 205-349
BuildParse ==
    /\ pc = "build_blocks"
    /\ entries' = ParseBlocks(blocks)
    /\ pc' = "build_entries"
    /\ UNCHANGED <<text, blocks, patches, cmdVars, resolveVars, ioVars>>

\* mutant: the filter loop also runs when no target package is given
BuildFilterAlways ==
    /\ pc = "build_entries"
    /\ \E tp \in TargetPool, iu \in BOOLEAN :
          /\ call' = [target_package |-> tp, include_universal |-> iu]
          /\ patches' = FilterPatches(entries, tp.s, iu)
    /\ pc' = "build_done"
    /\ UNCHANGED <<text, blocks, entries, cmd, builder, resolveVars, ioVars>>

\* build.parse_patches_from_text, lines 351-360; the arguments the caller passed
\* are drawn here, where they are first read
BuildFilter ==
    /\ pc = "build_entries"
    /\ \E tp \in TargetPool, iu \in BOOLEAN :
          /\ call' = [target_package |-> tp, include_universal |-> iu]
          /\ patches' = IF Truthy(tp) THEN FilterPatches(entries, tp.s, iu) ELSE entries
    /\ pc' = "build_done"
    /\ UNCHANGED <<text, blocks, entries, cmd, builder, resolveVars, ioVars>>

\* patcher.parse_patches, lines 40-49: without a match it returns []
PatcherSplit ==
    /\ pc = "text"
    /\ IF MatchStarts(text, 1) = <<>>
       THEN /\ patches' = <<>>
            /\ pc' = "patcher_empty"
            /\ UNCHANGED blocks
       ELSE /\ blocks' = SplitBlocks(text)
            /\ pc' = "patcher_blocks"
            /\ UNCHANGED patches
    /\ UNCHANGED <<text, entries, cmdVars, resolveVars, ioVars>>

\* patcher.parse_patches, line 51
PatcherParse ==
    /\ pc = "patcher_blocks"
    /\ entries' = PatcherParseBlocks(blocks)
    /\ pc' = "patcher_entries"
    /\ UNCHANGED <<text, blocks, patches, cmdVars, resolveVars, ioVars>>

\* patcher.parse_patches, lines 53-56
PatcherFilter ==
    /\ pc = "patcher_entries"
    /\ \E tp \in TargetPool, iu \in BOOLEAN :
          /\ call' = [target_package |-> tp, include_universal |-> iu]
          /\ patches' = IF Truthy(tp) THEN FilterPatches(entries, tp.s, iu) ELSE entries
    /\ pc' = "patcher_done"
    /\ UNCHANGED <<text, blocks, entries, cmd, builder, resolveVars, ioVars>>

\* run.list_patches: blocks are parsed and filtered as the lines arrive
RunList ==
    /\ pc = "text"
    /\ \E pkg \in RunPkgPool :
          /\ call' = [pkg |-> pkg]
          /\ patches' = RunListPatches(text, pkg)
    /\ pc' = "run_done"
    /\ UNCHANGED <<text, blocks, entries, cmd, builder, resolveVars, ioVars>>

NextSplit == BuildSplit \/ PatcherSplit
NextBuildParse == BuildSplit \/ BuildParse
NextListing ==
    \/ BuildSplit \/ BuildParse \/ BuildFilter
    \/ PatcherSplit \/ PatcherParse \/ PatcherFilter
    \/ RunList

SpecSplit == InitSplit /\ [][NextSplit]_vars
SpecOptions == InitOptions /\ [][NextBuildParse]_vars
SpecCatalog == InitCatalog /\ [][NextListing]_vars

\* the filter step of build.parse_patches_from_text (lines 351-358) run once more,
\* over the list it returned, with the same target and flag
BuildRefilter ==
    /\ pc = "build_done"
    /\ patches' = IF Truthy(call.target_package)
                  THEN FilterPatches(patches, call.target_package.s, call.include_universal)
                  ELSE patches
    /\ pc' = "build_refiltered"
    /\ UNCHANGED <<text, blocks, entries, cmdVars, resolveVars, ioVars>>

\* the filter step of patcher.parse_patches (lines 53-54, _filter_patches) run once
\* more, over the list it returned, with the same target and flag
PatcherRefilter ==
    /\ pc = "patcher_done"
    /\ patches' = IF Truthy(call.target_package)
                  THEN FilterPatches(patches, call.target_package.s, call.include_universal)
                  ELSE patches
    /\ pc' = "patcher_refiltered"
    /\ UNCHANGED <<text, blocks, entries, cmdVars, resolveVars, ioVars>>

NextRefilter ==
    \/ BuildSplit \/ BuildParse \/ BuildFilter \/ BuildRefilter
    \/ PatcherSplit \/ PatcherParse \/ PatcherFilter \/ PatcherRefilter

SpecRefilter == InitCatalog /\ [][NextRefilter]_vars

\* bound of the texts with an Options and a Compatible packages section
MaxSectionLines == 5

\* lines of the two sections: headers, a key, a default, a line of free text, a
\* package line, a package line with a blank value, and a Packages: line
SectionLinePool ==
    { Line(<<>>, "Options:", <<>>),
      Line(<<"\t">>, "Key:", <<" ">> \o tSize),
      Line(<<"\t">>, "Possible values:", <<>>),
      Line(<<"\t", "\t">>, "", <<"b", "i", "g">>),
      Line(<<"\t">>, "Default:", <<" ">> \o tPng),
      CompatHeader,
      PackageLine(tAB),
      Line(<<"\t">>, "Package:", <<" ">>),
      PackagesLine(tAC) }

SectionTexts == {<<IndexLine("1")>> \o b : b \in SeqsUpTo(SectionLinePool, MaxSectionLines)}

InitSections == InitListing(SectionTexts)

SpecSections == InitSections /\ [][NextBuildParse]_vars

\* bound of the texts whose blocks are parsed line by line
MaxParseLines == 4

\* lines of listings read by the block parsers: index headers, a field, empty and
\* blank lines, section headers and lines of the two sections
ParseLinePool ==
    { IndexLine("1"),
      Line(<<>>, "Name:", <<" ", "x">>),
      Line(<<>>, "", <<>>),
      Line(<<" ">>, "", <<>>),
      Line(<<>>, "Options:", <<>>),
      Line(<<"\t">>, "Key:", <<" ">> \o tSize),
      CompatHeader,
      PackageLine(tAB) }

ParseTexts == SeqsUpTo(ParseLinePool, MaxParseLines)

InitParse == InitListing(ParseTexts)

\* the two parsers called without a target package: split, then parse
NextParse == BuildSplit \/ BuildParse \/ PatcherSplit \/ PatcherParse

SpecParse == InitParse /\ [][NextParse]_vars

\* bound of the texts with descriptions
MaxDescLines == 4

\* lines around descriptions: a record description, a line of free text that may
\* continue it, fields that end it, and an Options section whose option has a
\* description of its own
DescLinePool ==
    { Line(<<>>, "Description:", <<" ", "f">>),
      Line(<<>>, "", <<"s">>),
      Line(<<>>, "Enabled:", <<" ">> \o sTrue),
      Line(<<>>, "Name:", <<" ", "x">>),
      Line(<<>>, "Options:", <<>>),
      Line(<<"\t">>, "Key:", <<" ">> \o tSize),
      Line(<<"\t">>, "Description:", <<" ", "o">>) }

DescTexts == {<<IndexLine("1")>> \o b : b \in SeqsUpTo(DescLinePool, MaxDescLines)}

InitDescription == InitListing(DescTexts)

SpecDescription == InitDescription /\ [][NextParse]_vars

\* bound of the texts with version lists
MaxVersionLines == 5

\* lines of a 'Compatible packages:' section: two packages, the sub-header of the
\* versions, two version lines, and the header of the section that ends it
VersionLinePool ==
    { PackageLine(tAB),
      PackageLine(tAC),
      Line(<<"\t">>, "Compatible versions:", <<>>),
      Line(<<"\t", "\t">>, "", <<"1">>),
      Line(<<"\t", "\t">>, "", <<"2">>),
      Line(<<>>, "Options:", <<>>) }

VersionTexts ==
    {<<IndexLine("1"), CompatHeader>> \o b : b \in SeqsUpTo(VersionLinePool, MaxVersionLines)}

InitVersions == InitListing(VersionTexts)

SpecVersions == InitVersions /\ [][NextBuildParse]_vars

----------------------------------------------------------------------------
(* build.parse_option_keys_from_lines and build._split_kv_pairs *)

\* the characters of a header keyword
HeaderChars(h) ==
    CASE h = "Index:" -> <<"I", "n", "d", "e", "x", ":">>
      [] h = "Name:" -> <<"N", "a", "m", "e", ":">>
      [] h = "Description:" -> <<"D", "e", "s", "c", "r", "i", "p", "t", "i", "o", "n", ":">>
      [] h = "Enabled:" -> <<"E", "n", "a", "b", "l", "e", "d", ":">>
      [] h = "Packages:" -> <<"P", "a", "c", "k", "a", "g", "e", "s", ":">>
      [] h = "Package:" -> <<"P", "a", "c", "k", "a", "g", "e", ":">>
      [] h = "Options:" -> <<"O", "p", "t", "i", "o", "n", "s", ":">>
      [] h = "Option:" -> <<"O", "p", "t", "i", "o", "n", ":">>
      [] h = "Key:" -> <<"K", "e", "y", ":">>
      [] h = "Default:" -> <<"D", "e", "f", "a", "u", "l", "t", ":">>
      [] h = "Type:" -> <<"T", "y", "p", "e", ":">>
      [] h = "Required:" -> <<"R", "e", "q", "u", "i", "r", "e", "d", ":">>
      [] h = "Title:" -> <<"T", "i", "t", "l", "e", ":">>
      [] h = "Possible values:" ->
            <<"P", "o", "s", "s", "i", "b", "l", "e", " ", "v", "a", "l", "u", "e", "s", ":">>
      [] h = "Compatible packages:" ->
            <<"C", "o", "m", "p", "a", "t", "i", "b", "l", "e", " ",
              "p", "a", "c", "k", "a", "g", "e", "s", ":">>
      [] h = "Compatible versions:" ->
            <<"C", "o", "m", "p", "a", "t", "i", "b", "l", "e", " ",
              "v", "e", "r", "s", "i", "o", "n", "s", ":">>
      [] h = "Package name:" ->
            <<"P", "a", "c", "k", "a", "g", "e", " ", "n", "a", "m", "e", ":">>
      [] OTHER -> <<h>>

\* a string with its header keywords spelled out
RECURSIVE Spell(_)
Spell(s) == IF s = <<>> THEN <<>> ELSE HeaderChars(s[1]) \o Spell(Tail(s))

IsKeyChar(c) == IsLetter(c) \/ IsDigit(c) \/ c \in {"_", ".", "-"}
IsTypeChar(c) == IsLetter(c) \/ IsDigit(c) \/ c \in {"_", "[", "]", ".", ",", " "}
IsWordChar(c) == IsLetter(c) \/ IsDigit(c) \/ c = "_"
IsValueChar(c) == ~IsSpace(c) /\ c # ","

\* first position from p on that holds no white space, Len(s) + 1 without one
RECURSIVE SkipSpace(_, _)
SkipSpace(s, p) == IF p <= Len(s) /\ IsSpace(s[p]) THEN SkipSpace(s, p + 1) ELSE p

\* last position of the run of key characters that starts at p, p - 1 without one
RECURSIVE KeyRunEnd(_, _)
KeyRunEnd(s, p) == IF p <= Len(s) /\ IsKeyChar(s[p]) THEN KeyRunEnd(s, p + 1) ELSE p - 1

RECURSIVE ValueRunEnd(_, _)
ValueRunEnd(s, p) == IF p <= Len(s) /\ IsValueChar(s[p]) THEN ValueRunEnd(s, p + 1) ELSE p - 1

\* ^\s*(?:[-*]\s*)?([A-Za-z0-9_.-]+) on a stripped line: <<first, last>> of the
\* key, <<>> without a match
PatKey(s) ==
    LET a == IF s # <<>> /\ s[1] \in {"-", "*"} THEN SkipSpace(s, 2) ELSE 0
    IN  IF a # 0 /\ KeyRunEnd(s, a) >= a THEN <<a, KeyRunEnd(s, a)>>
        ELSE IF KeyRunEnd(s, 1) >= 1 THEN <<1, KeyRunEnd(s, 1)>>
        ELSE <<>>

\* (?:\s*\(\s*([A-Za-z0-9_\[\]., ]+?)\s*\))? read after position e:
\* <<first, last, position of ")">> of the type hint, <<>> when the group is skipped
PatType(s, e) ==
    LET q == SkipSpace(s, e + 1)
        ok(g, h) ==
            /\ \A m \in (q + 1)..(g - 1) : IsSpace(s[m])
            /\ \A m \in g..h : IsTypeChar(s[m])
            /\ SkipSpace(s, h + 1) <= Len(s) /\ s[SkipSpace(s, h + 1)] = ")"
        gs == {g \in (q + 1)..Len(s) : \E h \in g..Len(s) : ok(g, h)}
    IN  IF q > Len(s) \/ s[q] # "(" \/ gs = {} THEN <<>>
        ELSE LET g == CHOOSE x \in gs : \A y \in gs : y <= x
                 h == CHOOSE x \in g..Len(s) : ok(g, x) /\ \A y \in g..(x - 1) : ~ok(g, y)
             IN  <<g, h, SkipSpace(s, h + 1)>>

sDefaultWord == <<"d", "e", "f", "a", "u", "l", "t">>

\* (?:.*?\bdefault\s*[:=]\s*([^\s,]+))? read after position e: the value, <<>> when
\* the group is skipped
PatDefault(s, e) ==
    LET ok(p) ==
            /\ p + 6 <= Len(s) /\ Lower(SubSeq(s, p, p + 6)) = sDefaultWord
            /\ p = 1 \/ ~IsWordChar(s[p - 1])
            /\ LET q == SkipSpace(s, p + 7)
               IN  /\ q <= Len(s) /\ s[q] \in {":", "="}
                   /\ ValueRunEnd(s, SkipSpace(s, q + 1)) >= SkipSpace(s, q + 1)
        ps == {p \in (e + 1)..Len(s) : ok(p)}
    IN  IF ps = {} THEN <<>>
        ELSE LET p == CHOOSE x \in ps : \A y \in ps : x <= y
                 r == SkipSpace(s, SkipSpace(s, p + 7) + 1)
             IN  <<SubSeq(s, r, ValueRunEnd(s, r))>>

\* pat.match(ln.strip()): <<[key, type_hint, default]>>, <<>> without a match
PatMatch(ln) ==
    LET s == Strip(Spell(ln))
        k == PatKey(s)
        t == PatType(s, k[2])
        d == PatDefault(s, IF t = <<>> THEN k[2] ELSE t[3])
    IN  IF k = <<>> THEN <<>>
        ELSE <<[key |-> SubSeq(s, k[1], k[2]),
                type_hint |-> IF t = <<>> THEN PyNone ELSE PyStr(SubSeq(s, t[1], t[2])),
                default |-> OptPy(d)]>>

\* build.parse_option_keys_from_lines: the first match of every key
RECURSIVE OptionKeysLoop(_, _)
OptionKeysLoop(options_lines, keys) ==
    IF options_lines = <<>> THEN keys
    ELSE LET m == PatMatch(options_lines[1])
         IN  OptionKeysLoop(Tail(options_lines),
                 IF m # <<>> /\ m[1].key # <<>> /\ \A i \in 1..Len(keys) : keys[i].key # m[1].key
                 THEN Append(keys, m[1]) ELSE keys)

\* mutant: a key seen again replaces the triple recorded for it
RECURSIVE OptionKeysLastWins(_, _)
OptionKeysLastWins(options_lines, keys) ==
    IF options_lines = <<>> THEN keys
    ELSE LET m == PatMatch(options_lines[1])
         IN  OptionKeysLastWins(Tail(options_lines),
                 IF m = <<>> \/ m[1].key = <<>> THEN keys
                 ELSE IF \A i \in 1..Len(keys) : keys[i].key # m[1].key THEN Append(keys, m[1])
                 ELSE [i \in 1..Len(keys) |-> IF keys[i].key = m[1].key THEN m[1] ELSE keys[i]])

ParseOptionKeysLastWins(options_lines) == OptionKeysLastWins(options_lines, <<>>)

ParseOptionKeysFromLines(options_lines) == OptionKeysLoop(options_lines, <<>>)

Max(a, b) == IF a >= b THEN a ELSE b

\* the first loop of build._split_kv_pairs from character i on
RECURSIVE KvItems(_, _, _, _)
KvItems(s, i, buf, depth) ==
    IF i > Len(s) THEN (IF buf # <<>> THEN <<Strip(buf)>> ELSE <<>>)
    ELSE LET d == IF s[i] = "[" THEN depth + 1
                  ELSE IF s[i] = "]" THEN Max(0, depth - 1) ELSE depth
         IN  IF s[i] = "," /\ d = 0
             THEN (IF Strip(buf) # <<>> THEN <<Strip(buf)>> ELSE <<>>) \o KvItems(s, i + 1, <<>>, d)
             ELSE KvItems(s, i + 1, Append(buf, s[i]), d)

\* token.split('=', 1) of the second loop
KvPair(token) ==
    IF \E i \in 1..Len(token) : token[i] = "="
    THEN LET i == CHOOSE j \in 1..Len(token) : token[j] = "=" /\ \A m \in 1..(j - 1) : token[m] # "="
         IN  Opt(Strip(SubSeq(token, 1, i - 1)), PyStr(Strip(SubSeq(token, i + 1, Len(token)))))
    ELSE Opt(Strip(token), PyNone)

\* build._split_kv_pairs
SplitKvPairs(s) == LET items == KvItems(s, 1, <<>>, 0) IN [i \in 1..Len(items) |-> KvPair(items[i])]

----------------------------------------------------------------------------
(* Selection Resolver: build.prompt_options_for_selected, patcher.prompt_options *)

\* by_idx.get(val): the last record with that index wins; <<>> for None
ByIdxGet(es, val) ==
    LET hits == {i \in 1..Len(es) : es[i].index # PyNone /\ es[i].index = val}
    IN  IF hits = {} THEN <<>> ELSE <<es[CHOOSE i \in hits : \A j \in hits : j <= i]>>

\* by_name.get(val): records without a name are not keyed
ByNameGet(es, val) ==
    LET hits == {i \in 1..Len(es) : Truthy(es[i].name) /\ es[i].name = val}
    IN  IF hits = {} THEN <<>> ELSE <<es[CHOOSE i \in hits : \A j \in hits : j <= i]>>

\* mutant: names are compared without regard to case
LookupEntryAnyCase(kind, val, es) ==
    IF kind = "idx" THEN ByIdxGet(es, val)
    ELSE LET hits == {i \in 1..Len(es) : Truthy(es[i].name) /\ val.t = "str"
                                          /\ Lower(es[i].name.s) = Lower(val.s)}
         IN  IF hits = {} THEN <<>> ELSE <<es[CHOOSE i \in hits : \A j \in hits : j <= i]>>

\* entry = by_idx.get(val) if kind == 'idx' else by_name.get(val)
LookupEntry(kind, val, es) == IF kind = "idx" THEN ByIdxGet(es, val) ELSE ByNameGet(es, val)

\* opts_map[k] = v: a known key keeps its place
SetItem(d, k, v) ==
    IF \E i \in 1..Len(d) : d[i].k = k
    THEN [i \in 1..Len(d) |-> IF d[i].k = k THEN Opt(k, v) ELSE d[i]]
    ELSE Append(d, Opt(k, v))

sCustom == <<"<custom>">>

\* what the operator may answer: confirm gives True, False or None (cancelled),
\* select gives the position of a choice (0: cancelled, past the values: <custom>),
\* text gives a string or None
ConfirmAnswers == {PyBool(TRUE), PyBool(FALSE), PyNone}
TextAnswers == {PyNone, PyStr(<<>>), PyStr(tPng)}
\* the answers to the questions about one option; after a confirmation that is not
\* True no further question is asked, so there is nothing further to answer
AnswerPool ==
    {a \in [set_it : ConfirmAnswers, sel : 0..2, val_input : TextAnswers] :
        ~Truthy(a.set_it) => a.sel = 0 /\ a.val_input = PyNone}
FreeAnswers == {PyNone, PyStr(<<>>), PyStr(<<"k", "=", "[", "1", ",", "2", "]", ",", "b">>)}

\* a question put to the operator for the n-th choice about key k, with the value
\* ask() returned
Question(n, q, k, a) == [choice |-> n, q |-> q, key |-> k, answer |-> a]

\* select(...).ask() for the answer a
SelectAnswer(pv, a) ==
    IF a.sel = 0 THEN PyNone ELSE IF a.sel <= Len(pv) THEN PyStr(pv[a.sel]) ELSE PyStr(sCustom)

\* (val_input or "") == ""
EmptyAnswer(v) == v = PyNone \/ v = PyStr(<<>>)

\* mutant: an answer equal to the default of the schema is not recorded
AskOptionSkipDefault(n, opt, a, acc) ==
    LET k == opt.key
        d == opt.default
        pv == opt.possible_values
        q1 == Append(acc.asked, Question(n, "confirm", k, a.set_it))
        q2 == Append(q1, Question(n, "select", k, SelectAnswer(pv, a)))
        put(v) == IF v = d THEN acc.opts_map ELSE SetItem(acc.opts_map, k, v)
    IN  IF ~Truthy(a.set_it) THEN [acc EXCEPT !.asked = q1]
        ELSE IF pv # <<>>
        THEN IF SelectAnswer(pv, a) = PyStr(sCustom)
             THEN [opts_map |-> put(IF EmptyAnswer(a.val_input) /\ ~Truthy(d)
                                    THEN PyNone ELSE a.val_input),
                   asked |-> Append(q2, Question(n, "text", k, a.val_input))]
             ELSE [opts_map |-> put(SelectAnswer(pv, a)), asked |-> q2]
        ELSE [opts_map |-> IF a.val_input = d THEN acc.opts_map
                           ELSE SetItem(acc.opts_map, k,
                                    IF EmptyAnswer(a.val_input) /\ d = PyNone
                                    THEN PyNone ELSE a.val_input),
              asked |-> Append(q1, Question(n, "text", k, a.val_input))]

\* one iteration of "for opt in entry['options_struct']" for the n-th choice
AskOption(n, opt, a, acc) ==
    LET k == opt.key
        d == opt.default
        pv == opt.possible_values
        q1 == Append(acc.asked, Question(n, "confirm", k, a.set_it))
        q2 == Append(q1, Question(n, "select", k, SelectAnswer(pv, a)))
    IN  IF ~Truthy(a.set_it) THEN [acc EXCEPT !.asked = q1]
        ELSE IF pv # <<>>
        THEN IF SelectAnswer(pv, a) = PyStr(sCustom)
             THEN [opts_map |-> SetItem(acc.opts_map, k,
                                   IF EmptyAnswer(a.val_input) /\ ~Truthy(d)
                                   THEN PyNone ELSE a.val_input),
                   asked |-> Append(q2, Question(n, "text", k, a.val_input))]
             ELSE [opts_map |-> SetItem(acc.opts_map, k, SelectAnswer(pv, a)), asked |-> q2]
        ELSE [opts_map |-> SetItem(acc.opts_map, k,
                              IF EmptyAnswer(a.val_input) /\ d = PyNone
                              THEN PyNone ELSE a.val_input),
              asked |-> Append(q1, Question(n, "text", k, a.val_input))]

RECURSIVE AskOptions(_, _, _, _)
AskOptions(n, opts, answers, acc) ==
    IF opts = <<>> THEN acc
    ELSE AskOptions(n, Tail(opts), Tail(answers), AskOption(n, opts[1], answers[1], acc))

\* one iteration of "for k, t, d in keys" of the raw-lines branch
AskKey(n, key, a, acc) ==
    LET q1 == Append(acc.asked, Question(n, "confirm", key.key, a.set_it))
    IN  IF ~Truthy(a.set_it) THEN [acc EXCEPT !.asked = q1]
        ELSE [opts_map |-> SetItem(acc.opts_map, key.key,
                              IF EmptyAnswer(a.val_input) /\ ~Truthy(key.default)
                              THEN PyNone ELSE a.val_input),
              asked |-> Append(q1, Question(n, "text", key.key, a.val_input))]

RECURSIVE AskKeys(_, _, _, _)
AskKeys(n, keys, answers, acc) ==
    IF keys = <<>> THEN acc
    ELSE AskKeys(n, Tail(keys), Tail(answers), AskKey(n, keys[1], answers[1], acc))

RECURSIVE SetItems(_, _)
SetItems(d, pairs) ==
    IF pairs = <<>> THEN d ELSE SetItems(SetItem(d, pairs[1].k, pairs[1].v), Tail(pairs))

\* the free-form question asked when the raw lines give no key
AskFree(n, ans, acc) ==
    [opts_map |-> IF Truthy(ans) THEN SetItems(acc.opts_map, SplitKvPairs(ans.s)) ELSE acc.opts_map,
     asked |-> Append(acc.asked, Question(n, "text", <<>>, ans))]

\* number of option questions the n-th choice leads to, and whether the free-form
\* question is asked
OptionsAsked(choice, es) ==
    LET entry == LookupEntry(choice[1], choice[2], es)
    IN  IF entry = <<>> THEN 0
        ELSE IF entry[1].options_struct # <<>> THEN Len(entry[1].options_struct)
        ELSE Len(ParseOptionKeysFromLines(entry[1].options_lines))

FreeAsked(choice, es) ==
    LET entry == LookupEntry(choice[1], choice[2], es)
    IN  /\ entry # <<>>
        /\ entry[1].options_struct = <<>>
        /\ entry[1].options_lines # <<>>
        /\ ParseOptionKeysFromLines(entry[1].options_lines) = <<>>

\* the body of "for kind, val in selected_ids" up to result.append: the options
\* map of the n-th choice and the questions asked for it
ResolveChoice(n, choice, es, answers, free) ==
    LET entry == LookupEntry(choice[1], choice[2], es)
        acc == [opts_map |-> <<>>, asked |-> <<>>]
    IN  IF entry = <<>> THEN acc
        ELSE IF entry[1].options_struct # <<>>
        THEN AskOptions(n, entry[1].options_struct, answers, acc)
        ELSE IF entry[1].options_lines # <<>>
        THEN IF ParseOptionKeysFromLines(entry[1].options_lines) # <<>>
             THEN AskKeys(n, ParseOptionKeysFromLines(entry[1].options_lines), answers, acc)
             ELSE AskFree(n, free, acc)
        ELSE acc

\* mutant: the selection is put in front of the earlier ones
PrependSelection(res, sel) == <<sel>> \o res

\* result.append({'by': kind, 'value': val, 'options': opts_map})
AppendSelection(res, sel) == Append(res, sel)

\* catalogs of the resolver: listings of at most two blocks, in both orders
ResolveBlockPool ==
    { <<IndexLine("3"), Line(<<>>, "Options:", <<>>),
        Line(<<"\t">>, "Key:", <<" ">> \o tFormat), Line(<<"\t">>, "Default:", <<" ">> \o tPng)>>,
      <<IndexLine("5"), Line(<<>>, "Name:", <<" ">> \o tRemoveAds), Line(<<>>, "Options:", <<>>),
        Line(<<"\t">>, "Key:", <<" ">> \o tSize), Line(<<"\t">>, "Possible values:", <<>>),
        Line(<<"\t", "\t">>, "", <<"b", "i", "g">>)>>,
      <<IndexLine("3"), Line(<<>>, "Name:", <<" ">> \o tRemoveAds)>>,
      <<IndexLine("7"), Line(<<>>, "Options:", <<>>),
        Line(<<"\t">>, "", tStrip \o <<" ", "(", "S", ")", " ", "d", "e", "f", "a", "u", "l", "t", "=", "x">>)>>,
      <<IndexLine("7"), Line(<<>>, "Options:", <<>>), Line(<<"\t">>, "", <<"(", "x", ")">>)>> }

ResolveTexts ==
    {<<>>} \cup {b : b \in ResolveBlockPool}
    \cup {a \o b : a, b \in ResolveBlockPool}

\* raw choices (kind, value): whether one matches a record depends on the catalog;
\* the last one differs from the name of a record by case only
ChoicePool ==
    { <<"idx", PyInt(3)>>, <<"idx", PyInt(7)>>,
      <<"name", PyStr(tRemoveAds)>>, <<"name", PyStr(Lower(tRemoveAds))>> }

NoSigning == [i \in 1..4 |-> PyNone]

\* the resolver starts with the catalog its program parsed from a listing
InitResolve ==
    /\ IdleIO
    /\ pc \in {"build_resolve", "patcher_resolve"}
    /\ text = <<>>
    /\ entries \in IF pc = "build_resolve"
                   THEN {ParsePatchesFromText(t, PyNone, FALSE) : t \in ResolveTexts}
                   ELSE {PatcherParsePatches(t, PyNone, FALSE) : t \in ResolveTexts}
    /\ selected_ids \in SeqsUpTo(ChoicePool, MaxSelections)
    /\ result = <<>>
    /\ asked = <<>>
    /\ blocks = <<>>
    /\ patches = <<>>
    /\ IdleCmd

\* build.prompt_options_for_selected: one iteration of the loop over selected_ids,
\* with the answers of the operator
BuildResolveChoice ==
    /\ pc = "build_resolve"
    /\ Len(result) < Len(selected_ids)
    /\ LET n == Len(result) + 1
           choice == selected_ids[n]
       IN  \E answers \in [1..OptionsAsked(choice, entries) -> AnswerPool],
              free \in IF FreeAsked(choice, entries) THEN FreeAnswers ELSE {PyNone} :
              LET r == ResolveChoice(n, choice, entries, answers, free)
              IN  /\ result' = AppendSelection(result, Sel(choice[1], choice[2], r.opts_map))
                  /\ asked' = asked \o r.asked
    /\ UNCHANGED <<pc, selected_ids, listVars, cmdVars, ioVars>>

\* build.main, lines 679-694: the selections go to build_patch_command
BuildMainCommand ==
    /\ pc = "build_resolve"
    /\ Len(result) = Len(selected_ids)
    /\ \E ex \in BOOLEAN, sg \in {NoSigning, [i \in 1..4 |-> SignValue(i)]} :
          /\ call' = [cli_jar |-> tCliJar, rvp_path |-> tRvp, apk_path |-> tInApk,
                      out_apk |-> tOutApk, exclusive |-> ex, selected |-> result,
                      sign |-> sg, extra_args |-> <<>>]
          /\ cmd' = BuildPatchCommand(tCliJar, tRvp, tInApk, tOutApk, ex, result, sg, <<>>)
    /\ builder' = "build"
    /\ pc' = "build_cmd"
    /\ UNCHANGED <<listVars, resolveVars, ioVars>>

\* patcher.prompt_options without questionary: every choice gets an empty map
PatcherResolveNoPrompt ==
    /\ pc = "patcher_resolve"
    /\ result = <<>>
    /\ result' = [i \in 1..Len(selected_ids) |->
                     Sel(selected_ids[i][1], selected_ids[i][2], <<>>)]
    /\ pc' = "patcher_resolved"
    /\ UNCHANGED <<selected_ids, asked, listVars, cmdVars, ioVars>>

\* patcher.prompt_options: one iteration of the loop over selected; a cancelled
\* confirmation ends the call with None
PatcherResolveChoice ==
    /\ pc = "patcher_resolve"
    /\ Len(result) < Len(selected_ids)
    /\ LET n == Len(result) + 1
           choice == selected_ids[n]
           entry == LookupEntry(choice[1], choice[2], entries)
       IN  IF entry # <<>> /\ entry[1].options_struct # <<>>
           THEN \E confirm_result \in ConfirmAnswers :
                   /\ asked' = Append(asked, Question(n, "confirm", <<>>, confirm_result))
                   /\ IF confirm_result = PyNone
                      THEN result' = <<>> /\ pc' = "patcher_cancelled"
                      ELSE result' = AppendSelection(result, Sel(choice[1], choice[2], <<>>))
                           /\ pc' = pc
           ELSE /\ result' = AppendSelection(result, Sel(choice[1], choice[2], <<>>))
                /\ UNCHANGED <<asked, pc>>
    /\ UNCHANGED <<selected_ids, listVars, cmdVars, ioVars>>

\* patcher.prompt_options: return result
PatcherResolveReturn ==
    /\ pc = "patcher_resolve"
    /\ Len(result) = Len(selected_ids)
    /\ pc' = "patcher_resolved"
    /\ UNCHANGED <<listVars, resolveVars, cmdVars, ioVars>>

NextResolve ==
    \/ BuildResolveChoice \/ BuildMainCommand
    \/ PatcherResolveNoPrompt \/ PatcherResolveChoice \/ PatcherResolveReturn

SpecResolve == InitResolve /\ [][NextResolve]_vars

\* bounds of the raw option lines: of a call of the heuristic parser, and of the
\* Options section of the record the resolver is run on
MaxRawLines == 3
MaxFallbackLines == 2

\* lines of an Options section: one key with two type hints and defaults, a second
\* key, a line without a key, and the Key: line of a schema
RawLinePool ==
    { Line(<<"\t">>, "", tSize \o <<" ", "(", "S", ")", " ">> \o sDefaultWord \o <<"=", "x">>),
      Line(<<"\t">>, "", tSize \o <<" ", "(", "T", ")", " ">> \o sDefaultWord \o <<"=", "y">>),
      Line(<<"\t">>, "", tStrip),
      Line(<<"\t">>, "", <<"(", "x", ")">>),
      Line(<<"\t">>, "Key:", <<" ">> \o tFormat) }

\* entry['options_lines'] of a section: its stripped lines
RawLines(b) == [i \in 1..Len(b) |-> Strip(Render(b[i]))]

FallbackTexts ==
    {<<IndexLine("1"), Line(<<>>, "Options:", <<>>)>> \o b :
        b \in SeqsUpTo(RawLinePool, MaxFallbackLines)}

\* parse_option_keys_from_lines is called on raw lines, or build.main has the
\* listing of one record with an Options section
InitFallback ==
    /\ IdleIO
    /\ cmd = NoCmd
    /\ builder = "none"
    /\ blocks = <<>> /\ entries = <<>> /\ patches = <<>>
    /\ IdleResolve
    /\ \/ /\ pc = "keys_args"
          /\ call \in {[options_lines |-> RawLines(b)] : b \in SeqsUpTo(RawLinePool, MaxRawLines)}
          /\ text = <<>>
       \/ /\ pc = "text"
          /\ call = <<>>
          /\ text \in FallbackTexts

\* a call of build.parse_option_keys_from_lines
CallParseOptionKeys ==
    /\ pc = "keys_args"
    /\ result' = ParseOptionKeysFromLines(call.options_lines)
    /\ pc' = "keys_done"
    /\ UNCHANGED <<call, cmd, builder, selected_ids, asked, listVars, ioVars>>

\* value = ('idx', e['index']) if e['index'] is not None else ('name', name)
ChoiceValue(e) ==
    IF e.index # PyNone THEN <<"idx", e.index>>
    ELSE <<"name", IF Truthy(e.name) THEN e.name ELSE PyStr(<<"(Unnamed patch)">>)>>

\* build.main, lines 666-677: the filter of parse_patches_from_text with the
\* arguments of the command line, then interactive_select_patches: it leaves the
\* program without a record, and returns the values of the boxes the operator
\* checked, at least one, in the order of the records
BuildMainSelect ==
    /\ pc = "build_entries"
    /\ \E tp \in TargetPool, iu \in BOOLEAN :
          LET es == IF Truthy(tp) THEN FilterPatches(entries, tp.s, iu) ELSE entries
          IN  /\ entries' = es
              /\ patches' = es
              /\ IF es = <<>>
                 THEN pc' = "build_exit" /\ UNCHANGED selected_ids
                 ELSE /\ pc' = "build_resolve"
                      /\ \E S \in SUBSET (1..Len(es)) \ {{}} :
                            selected_ids' =
                                [k \in 1..Cardinality(S) |->
                                    ChoiceValue(es[CHOOSE i \in S : Cardinality({j \in S : j <= i}) = k])]
    /\ UNCHANGED <<text, blocks, result, asked, cmdVars, ioVars>>

NextFallback == CallParseOptionKeys \/ BuildSplit \/ BuildParse \/ BuildMainSelect \/ BuildResolveChoice

SpecFallback == InitFallback /\ [][NextFallback]_vars

----------------------------------------------------------------------------
(* run.select_patches *)

\* bound of the listings run.py selects from
MaxSelectBlocks == 2

\* blocks of a listing read by run.py: two records of one name, the first enabled
\* and with an option; two records whose header holds no index, the first with
\* an option that has a default
SelectBlockPool ==
    { <<IndexLine("1"), Line(<<>>, "Name:", <<" ", "x">>), Line(<<>>, "Enabled:", <<" ">> \o sTrue),
        Line(<<>>, "Key:", <<" ">> \o tSize), Line(<<"\t">>, "Type:", <<" ", "s">>)>>,
      <<IndexLine("2"), Line(<<>>, "Name:", <<" ", "x">>)>>,
      <<IndexLine("a"), Line(<<>>, "Name:", <<" ", "y">>),
        Line(<<>>, "Key:", <<" ">> \o tFormat), Line(<<"\t">>, "Type:", <<" ", "s">>),
        Line(<<"\t">>, "Default:", <<" ">> \o tPng)>>,
      <<IndexLine("a"), Line(<<>>, "Name:", <<" ", "z">>)>> }

SelectTexts == {Concat(bs) : bs \in SeqsUpTo(SelectBlockPool, MaxSelectBlocks)}

InitSelect == InitListing(SelectTexts)

\* the k-th smallest member of a set of numbers
KthMember(S, k) == CHOOSE i \in S : Cardinality({j \in S : j <= i}) = k

\* [(('idx', e['index']) if e['index'] is not None else ('name', e['name']),
\*   e['index'] if e['index'] is not None else e['name'], {}) for e in default]
RunDefaults(es) ==
    LET D == {i \in 1..Len(es) : Truthy(es[i].enabled)}
    IN  [k \in 1..Cardinality(D) |->
            LET e == es[KthMember(D, k)]
            IN  IF e.index # PyNone
                THEN [kind |-> <<"idx", e.index>>, val |-> e.index, opts |-> <<>>]
                ELSE [kind |-> <<"name", e.name>>, val |-> e.name, opts |-> <<>>]]

\* next((e for e in entries if e['index'] == idx or e['name'] == name), None)
RunFindEntry(es, idx, name) ==
    LET hits == {i \in 1..Len(es) : es[i].index = idx \/ es[i].name = name}
    IN  IF hits = {} THEN <<>> ELSE <<es[CHOOSE i \in hits : \A j \in hits : i <= j]>>

\* "for opt in entry['options']": val = text(..., default=opt['default']).ask();
\* if val and val != opt['default']: opts[opt['key']] = val
RECURSIVE RunAskOptions(_, _, _, _)
RunAskOptions(n, opts, answers, acc) ==
    IF opts = <<>> THEN acc
    ELSE LET val == answers[1]
             put == Truthy(val) /\ val.s # opts[1].default
         IN  RunAskOptions(n, Tail(opts), Tail(answers),
                 [opts |-> IF put THEN SetItem(acc.opts, opts[1].key, val) ELSE acc.opts,
                  asked |-> Append(acc.asked, Question(n, "text", opts[1].key, val)),
                  used |-> acc.used + 1])

\* "for idx, name in selected" from the n-th choice on
RECURSIVE RunSelectLoop(_, _, _, _, _)
RunSelectLoop(es, selected, n, answers, acc) ==
    IF n > Len(selected) THEN acc
    ELSE LET idx == selected[n].idx
             name == selected[n].name
             entry == RunFindEntry(es, idx, name)
             r == RunAskOptions(n, IF entry # <<>> THEN entry[1].options ELSE <<>>, answers,
                                [opts |-> <<>>, asked |-> acc.asked, used |-> 0])
         IN  RunSelectLoop(es, selected, n + 1, SubSeq(answers, r.used + 1, Len(answers)),
                 [result |-> Append(acc.result,
                                [kind |-> IF idx # PyNone THEN "idx" ELSE "name",
                                 val |-> IF idx # PyNone THEN idx ELSE name,
                                 opts |-> r.opts]),
                  asked |-> r.asked])

\* number of text questions the loop asks for the choices from the n-th on
RECURSIVE RunQuestions(_, _, _)
RunQuestions(es, selected, n) ==
    IF n > Len(selected) THEN 0
    ELSE LET entry == RunFindEntry(es, selected[n].idx, selected[n].name)
         IN  (IF entry # <<>> THEN Len(entry[1].options) ELSE 0) + RunQuestions(es, selected, n + 1)

\* the values of the boxes S of the checkbox, in the order of the records; pos is
\* the position of the box, which the program does not see
CheckedBoxes(es, S) ==
    [k \in 1..Cardinality(S) |->
        [pos |-> KthMember(S, k), idx |-> es[KthMember(S, k)].index, name |-> es[KthMember(S, k)].name]]

\* run.select_patches(patches_list), called by main when the list is not empty: the
\* enabled records when the operator does not customize, None when no box is
\* checked, else one selection for every checked box
RunSelectPatches ==
    /\ pc = "run_done"
    /\ patches # <<>>
    /\ \E customize \in ConfirmAnswers :
          IF ~Truthy(customize)
          THEN /\ result' = RunDefaults(patches)
               /\ selected_ids' = <<>>
               /\ asked' = <<Question(0, "confirm", <<>>, customize)>>
               /\ pc' = "run_defaults"
          ELSE \E S \in SUBSET (1..Len(patches)) :
                  LET selected == CheckedBoxes(patches, S)
                  IN  /\ selected_ids' = selected
                      /\ IF S = {}
                         THEN /\ result' = <<>>
                              /\ asked' = <<Question(0, "confirm", <<>>, customize)>>
                              /\ pc' = "run_none"
                         ELSE \E answers \in [1..RunQuestions(patches, selected, 1) -> TextAnswers] :
                                 LET r == RunSelectLoop(patches, selected, 1, answers,
                                              [result |-> <<>>,
                                               asked |-> <<Question(0, "confirm", <<>>, customize)>>])
                                 IN  /\ result' = r.result
                                     /\ asked' = r.asked
                                     /\ pc' = "run_selected"
    /\ UNCHANGED <<listVars, cmdVars, ioVars>>

NextSelect == RunList \/ RunSelectPatches

SpecSelect == InitSelect /\ [][NextSelect]_vars

----------------------------------------------------------------------------
(* Files on disk *)

\* a file or directory: its path and what it holds
File(path, content) == [path |-> path, content |-> content]

\* Path.exists()
Exists(files, path) == \E f \in files : f.path = path

ContentOf(files, path) == (CHOOSE f \in files : f.path = path).content

\* open(path, 'wb') followed by writes, or mkdir of a directory that is not there
WriteFile(files, path, content) == {f \in files : f.path # path} \cup {File(path, content)}

\* unlink, rmtree
RemoveFile(files, path) == {f \in files : f.path # path}

\* shutil.copy2(src, dst)
CopyFile(files, src, dst) == WriteFile(files, dst, ContentOf(files, src))

----------------------------------------------------------------------------
(* cache_manager.py, apkeditor.py and utils.download_file_smart *)

\* bound of the calls made on one cache directory
MaxCacheCalls == 3

CachePath(filename) == <<"cache", filename>>
OutputPath(filename) == <<"out", filename>>

\* what a release asset holds, written to its end or not
Asset(tag, complete) == [tag |-> tag, complete |-> complete]

\* the ways download_file_smart(url, dest) ends: the file is written to its end; the
\* request fails before dest is opened; the stream breaks after dest was opened
DownloadOutcomes == {"ok", "refused", "broken"}

\* utils.download_file_smart: the files after the call
DownloadFileSmart(files, dest, tag, outcome) ==
    CASE outcome = "ok" -> WriteFile(files, dest, Asset(tag, TRUE))
      [] outcome = "broken" -> WriteFile(files, dest, Asset(tag, FALSE))
      [] OTHER -> files

\* self.metadata[key], <<>> when the key is not there
MetaGet(md, key) ==
    LET hits == {i \in 1..Len(md) : md[i].k = key} IN IF hits = {} THEN <<>> ELSE <<md[CHOOSE i \in hits : TRUE].v>>

\* CacheManager.is_cached
IsCached(md, files, key, tag) ==
    /\ MetaGet(md, key) # <<>>
    /\ Exists(files, CachePath(MetaGet(md, key)[1].filename))
    /\ MetaGet(md, key)[1].tag = tag

\* CacheManager.get_cached_path: <<path>>, <<>> for None
GetCachedPath(md, files, key) ==
    IF MetaGet(md, key) # <<>> /\ Exists(files, CachePath(MetaGet(md, key)[1].filename))
    THEN <<CachePath(MetaGet(md, key)[1].filename)>>
    ELSE <<>>

\* CacheManager.add_to_cache
AddToCache(md, key, tag, filename) == SetItem(md, key, [tag |-> tag, filename |-> filename])

\* the calls made on the cache: download_or_use_cached for the key 'cli', with the
\* tag and the asset name of the latest release
CacheCallPool ==
    [ cache_key : {"cli"}, tag : {1, 2}, filename : {"a.jar", "b.jar"},
      output_dir : BOOLEAN, offline_mode : BOOLEAN, download : DownloadOutcomes ]

\* a cache directory that was just created
InitCache ==
    /\ pc = "cache_ready"
    /\ call = [n |-> 0]
    /\ fs = {}
    /\ metadata = <<>>
    /\ worker = "none"
    /\ cmd = NoCmd
    /\ builder = "none"
    /\ result = [by |-> "none"]
    /\ selected_ids = <<>>
    /\ asked = <<>>
    /\ IdleList

\* "if output_dir:" at the end of every branch: the file is copied into the output
\* directory under the name the caller gave, and that path is returned
Deliver(files, path, a) ==
    IF a.output_dir
    THEN [fs |-> CopyFile(files, path, OutputPath(a.filename)), path |-> OutputPath(a.filename)]
    ELSE [fs |-> files, path |-> path]

\* cache_manager.download_or_use_cached; 'by' tells which branch ended the call
DownloadOrUseCached ==
    /\ pc \in {"cache_ready", "cache_returned", "cache_raised"}
    /\ call.n < MaxCacheCalls
    /\ \E a \in CacheCallPool :
          LET cached == GetCachedPath(metadata, fs, a.cache_key)
              dest == CachePath(a.filename)
              after == DownloadFileSmart(fs, dest, a.tag, a.download)
          IN  /\ call' = [n |-> call.n + 1, fn |-> "download_or_use_cached", args |-> a]
              /\ IF IsCached(metadata, fs, a.cache_key, a.tag) /\ cached # <<>>
                 THEN /\ fs' = Deliver(fs, cached[1], a).fs
                      /\ result' = [by |-> "hit", path |-> Deliver(fs, cached[1], a).path]
                      /\ pc' = "cache_returned"
                      /\ UNCHANGED metadata
                 ELSE IF a.offline_mode
                 THEN IF cached # <<>>
                      THEN /\ fs' = Deliver(fs, cached[1], a).fs
                           /\ result' = [by |-> "offline", path |-> Deliver(fs, cached[1], a).path]
                           /\ pc' = "cache_returned"
                           /\ UNCHANGED metadata
                      ELSE /\ result' = [by |-> "RuntimeError"]
                           /\ pc' = "cache_raised"
                           /\ UNCHANGED <<fs, metadata>>
                 ELSE IF a.download = "ok"
                 THEN /\ metadata' = AddToCache(metadata, a.cache_key, a.tag, a.filename)
                      /\ fs' = Deliver(after, dest, a).fs
                      /\ result' = [by |-> "download", path |-> Deliver(after, dest, a).path]
                      /\ pc' = "cache_returned"
                 ELSE \* the handler calls print_warning, a name the module does not
                      \* define: NameError leaves the handler
                      /\ fs' = after
                      /\ result' = [by |-> "NameError"]
                      /\ pc' = "cache_raised"
                      /\ UNCHANGED metadata
    /\ UNCHANGED <<cmd, builder, selected_ids, asked, worker, listVars>>

ApkeditorJar == CachePath("APKEditor.jar")

\* apkeditor.ensure_apkeditor(cache_mgr): the release request fails or gives the
\* tag of a release, then the jar is downloaded
EnsureApkeditor ==
    /\ pc \in {"cache_ready", "cache_returned", "cache_raised"}
    /\ call.n < MaxCacheCalls
    /\ IF Exists(fs, ApkeditorJar)
       THEN /\ call' = [n |-> call.n + 1, fn |-> "ensure_apkeditor", args |-> <<>>]
            /\ result' = [by |-> "hit", path |-> ApkeditorJar]
            /\ pc' = "cache_returned"
            /\ UNCHANGED <<fs, metadata>>
       ELSE \E release \in {"ok", "failed"}, tag \in {1, 2}, outcome \in DownloadOutcomes :
               /\ call' = [n |-> call.n + 1, fn |-> "ensure_apkeditor",
                           args |-> [release |-> release, tag |-> tag, download |-> outcome]]
               /\ IF release = "failed"
                  THEN /\ result' = [by |-> "RuntimeError"]
                       /\ pc' = "cache_raised"
                       /\ UNCHANGED <<fs, metadata>>
                  ELSE /\ fs' = DownloadFileSmart(fs, ApkeditorJar, tag, outcome)
                       /\ IF outcome = "ok"
                          THEN /\ metadata' = AddToCache(metadata, "apkeditor", tag, "APKEditor.jar")
                               /\ result' = [by |-> "download", path |-> ApkeditorJar]
                               /\ pc' = "cache_returned"
                          ELSE /\ result' = [by |-> "RuntimeError"]
                               /\ pc' = "cache_raised"
                               /\ UNCHANGED metadata
    /\ UNCHANGED <<cmd, builder, selected_ids, asked, worker, listVars>>

NextCache == DownloadOrUseCached \/ EnsureApkeditor

SpecCache == InitCache /\ [][NextCache]_vars

----------------------------------------------------------------------------
(* apk_handler.convert_apkm_to_apk *)

ApkmPath == <<"in", "x.apkm">>
ExtractDir == <<"out", "x_temp">>
OutputApkMerged == <<"out", "x_merged.apk">>
OutputApkSingle == <<"out", "x.apk">>

\* what zipfile finds in the .apkm file: no archive at all, an archive without an
\* .apk member, one with a single APK, one with a base and a split, one with a
\* member that fails its check while it is read, one that cannot be read
ArchiveKinds == {"not_zip", "no_apk", "one_apk", "splits", "bad_member", "io_error"}

\* the arguments of the call and the outcomes of what it calls
ConvertCallPool ==
    [ archive : ArchiveKinds, merge_splits : BOOLEAN, cache_mgr : BOOLEAN,
      apkeditor : {"ok", "failed"}, merge : {"ok", "failed"}, copy : {"ok", "failed"} ]

\* the .apkm file may be missing, and '<stem>_temp' may be left from an earlier run
InitConvert ==
    /\ pc = "convert_args"
    /\ call \in ConvertCallPool
    /\ fs \in {S \cup T : S \in SUBSET {File(ApkmPath, "apkm")},
                          T \in SUBSET {File(ExtractDir, "stale")}}
    /\ metadata = <<>>
    /\ worker = "none"
    /\ cmd = NoCmd
    /\ builder = "none"
    /\ IdleResolve
    /\ IdleList

\* the end of the call for the archive and outcomes a, with extract_dir created
\* and empty in files: the exception that leaves the function, or "return", and
\* the files it leaves
ConvertOutcome(files, a) ==
    LET extracted == WriteFile(files, ExtractDir, "extracted")
        removed == RemoveFile(files, ExtractDir)
    IN  CASE a.archive = "not_zip" -> [by |-> "ValueError", fs |-> files]
          [] a.archive = "bad_member" -> [by |-> "ValueError", fs |-> extracted]
          [] a.archive \in {"no_apk", "io_error"} -> [by |-> "RuntimeError", fs |-> removed]
          [] a.archive = "splits" /\ a.merge_splits ->
                IF a.cache_mgr /\ a.apkeditor = "ok" /\ a.merge = "ok"
                THEN [by |-> "return", path |-> OutputApkMerged,
                      fs |-> WriteFile(removed, OutputApkMerged, "apk")]
                ELSE [by |-> "RuntimeError", fs |-> removed]
          [] OTHER ->
                IF a.copy = "ok"
                THEN [by |-> "return", path |-> OutputApkSingle,
                      fs |-> WriteFile(removed, OutputApkSingle, "apk")]
                ELSE [by |-> "RuntimeError", fs |-> removed]

\* apk_handler.convert_apkm_to_apk
ConvertApkmToApk ==
    /\ pc = "convert_args"
    /\ IF ~Exists(fs, ApkmPath)
       THEN /\ result' = [by |-> "FileNotFoundError"]
            /\ pc' = "convert_raised"
            /\ UNCHANGED fs
       ELSE LET r == ConvertOutcome(WriteFile(RemoveFile(fs, ExtractDir), ExtractDir, "empty"), call)
            IN  /\ fs' = r.fs
                /\ result' = [x \in DOMAIN r \ {"fs"} |-> r[x]]
                /\ pc' = IF r.by = "return" THEN "convert_returned" ELSE "convert_raised"
    /\ UNCHANGED <<call, cmd, builder, selected_ids, asked, metadata, worker, listVars>>

SpecConvert == InitConvert /\ [][ConvertApkmToApk]_vars

----------------------------------------------------------------------------
(* run.py: build_cmd, and the main program with the conversion of an .apkm
   input running on a thread of its own *)

\* str(path) of a pathlib.Path
PathStr(path) == <<path[1], "/">> \o Tail(path)

InputApkm == <<"in", "x", ".apkm">>
InputApk == <<"in", "y", ".apk">>
ConvertTmp == <<".cache", "apkm_tmp">>
PkgTmp == <<".cache", "apkm_pkg">>
OutputDir == <<"output">>

\* Path(apkm).parent / f"{Path(apkm).stem}.apk"
ConvertedPath(apkm) == <<apkm[1], apkm[2], ".apk">>

\* Path("output") / f"{apk_path.stem}_patched{apk_path.suffix}"
PatchedPath(apk_path) == <<"output", apk_path[2], "_patched", apk_path[3]>>

RECURSIVE RunOptionTokens(_)
RunOptionTokens(opts) ==
    IF opts = <<>> THEN <<>>
    ELSE <<sDashO \o opts[1].k \o sEq \o Str(opts[1].v)>> \o RunOptionTokens(Tail(opts))

RECURSIVE RunSelectionsTokens(_)
RunSelectionsTokens(selected) ==
    IF selected = <<>> THEN <<>>
    ELSE <<IF selected[1].by = "idx" THEN sEi ELSE sE, Str(selected[1].value)>>
         \o RunOptionTokens(selected[1].options)
         \o RunSelectionsTokens(Tail(selected))

\* run.build_cmd
RunBuildCmd(cli, rvp, apk, out, selected) ==
    <<sJava, sJar, cli, sPatch, sP, rvp>> \o RunSelectionsTokens(selected) \o <<sO, out, apk>>

\* what select_patches returns: nothing, or selections
MainSelectedPool ==
    { <<>>,
      <<Sel("idx", PyInt(1), <<Opt(tSize, PyStr(<<"1">>))>>)>>,
      <<Sel("name", PyStr(tRemoveAds), <<>>)>> }

\* the future of the submitted conversion: not created, or its state, and how the
\* call ends once it has reached its return or its exit (path <<>> is None)
Future(state, by, path) == [state |-> state, by |-> by, path |-> path]
NoFuture == Future("none", "none", <<>>)

\* the input file is there; either temporary directory and the converted file may
\* be left from an earlier run
InitMain ==
    /\ pc = "main_submit"
    /\ \E input \in {InputApkm, InputApk} :
          /\ call = [input |-> input, apk_path |-> input, pkg |-> "unset",
                     selected |-> <<>>, waited |-> "no"]
          /\ fs \in { {File(input, "input"), File(<<".cache">>, "dir")} \cup S :
                      S \in SUBSET { File(ConvertTmp, "stale"), File(PkgTmp, "stale"),
                                     File(ConvertedPath(InputApkm), "stale") } }
    /\ result = NoFuture
    /\ worker = "none"
    /\ metadata = <<>>
    /\ cmd = NoCmd
    /\ builder = "none"
    /\ selected_ids = <<>>
    /\ asked = <<>>
    /\ IdleList

IsApkm == call.input[3] = ".apkm"

\* run.py 224-227: the executor starts its one thread in submit
MainSubmit ==
    /\ pc = "main_submit"
    /\ IF IsApkm
       THEN /\ worker' = "apkm2apk"
            /\ result' = Future("RUNNING", "none", <<>>)
       ELSE UNCHANGED <<worker, result>>
    /\ pc' = "main_pkg"
    /\ UNCHANGED <<call, cmd, builder, selected_ids, asked, fs, metadata, listVars>>

\* get_pkg_apkm up to its try, or get_pkg for an .apk input
MainGetPkg ==
    /\ pc = "main_pkg"
    /\ IF IsApkm
       THEN /\ fs' = WriteFile(RemoveFile(fs, PkgTmp), PkgTmp, "empty")
            /\ pc' = "main_pkg_unzip"
            /\ UNCHANGED call
       ELSE /\ \E pkg \in {"found", "none"} :
                  /\ call' = [call EXCEPT !.pkg = pkg]
                  /\ pc' = IF pkg = "found" THEN "main_list" ELSE "main_exit"
            /\ UNCHANGED fs
    /\ UNCHANGED <<cmd, builder, selected_ids, result, asked, metadata, worker, listVars>>

\* get_pkg_apkm: unzip, the base APK and its package name, or the bare except
MainPkgUnzip ==
    /\ pc = "main_pkg_unzip"
    /\ \E pkg \in {"found", "none"}, extracted \in BOOLEAN :
          /\ pkg = "found" => extracted
          /\ call' = [call EXCEPT !.pkg = pkg]
          /\ fs' = IF extracted THEN WriteFile(fs, PkgTmp, "extracted") ELSE fs
    /\ pc' = "main_pkg_finally"
    /\ UNCHANGED <<cmd, builder, selected_ids, result, asked, metadata, worker, listVars>>

\* get_pkg_apkm: the finally clause, then run.py 229
MainPkgFinally ==
    /\ pc = "main_pkg_finally"
    /\ fs' = RemoveFile(fs, PkgTmp)
    /\ pc' = IF call.pkg = "found" THEN "main_list" ELSE "main_exit"
    /\ UNCHANGED <<call, cmd, builder, selected_ids, result, asked, metadata, worker, listVars>>

\* run.py 230-231
MainListPatches ==
    /\ pc = "main_list"
    /\ \E found \in BOOLEAN : pc' = IF found THEN "main_select" ELSE "main_exit"
    /\ UNCHANGED <<cmdVars, resolveVars, ioVars, listVars>>

\* run.py 232-233
MainSelectPatches ==
    /\ pc = "main_select"
    /\ \E selected \in MainSelectedPool :
          /\ call' = [call EXCEPT !.selected = selected]
          /\ pc' = IF selected = <<>> THEN "main_exit" ELSE "main_wait"
    /\ UNCHANGED <<cmd, builder, resolveVars, ioVars, listVars>>

\* a wait that does not block: the path the conversion is to write is taken
\* whatever the state of the future
MainWaitNoBlock ==
    /\ pc = "main_wait"
    /\ call' = [call EXCEPT !.apk_path = IF IsApkm THEN ConvertedPath(call.input) ELSE @,
                            !.waited = "returned"]
    /\ pc' = "main_check"
    /\ UNCHANGED <<cmd, builder, resolveVars, ioVars, listVars>>

\* the future is still running when the timeout of the wait has passed
WaitTimeout ==
    /\ result.state # "FINISHED"
    /\ call' = [call EXCEPT !.waited = "timeout"]
    /\ pc' = "main_exit"

\* run.py 234-238: fut.result(timeout=600) returns what the call returned, raises
\* what the call raised (the SystemExit of err is not an Exception, and leaves the
\* program), or raises TimeoutError
MainWait ==
    /\ pc = "main_wait"
    /\ IF IsApkm
       THEN \/ /\ result.state = "FINISHED"
               /\ IF result.by = "return"
                  THEN /\ call' = [call EXCEPT !.apk_path = result.path, !.waited = "returned"]
                       /\ pc' = "main_check"
                  ELSE /\ call' = [call EXCEPT !.waited = "raised"]
                       /\ pc' = "main_exit"
            \/ WaitTimeout
       ELSE /\ pc' = "main_check"
            /\ UNCHANGED call
    /\ UNCHANGED <<cmd, builder, resolveVars, ioVars, listVars>>

\* run.py 239-244: the check of the path, the output directory, and the patch
\* command handed to subprocess.run
MainPatch ==
    /\ pc = "main_check"
    /\ IF call.apk_path = <<>> \/ ~Exists(fs, call.apk_path)
       THEN /\ pc' = "main_exit"
            /\ UNCHANGED <<cmd, fs>>
       ELSE /\ fs' = IF Exists(fs, OutputDir) THEN fs ELSE WriteFile(fs, OutputDir, "dir")
            /\ cmd' = RunBuildCmd(tCliJar, tRvp, PathStr(call.apk_path),
                                  PathStr(PatchedPath(call.apk_path)), call.selected)
            /\ pc' = "main_patch"
    /\ UNCHANGED <<call, builder, resolveVars, metadata, worker, listVars>>

\* run.patch: the command ends
MainPatchEnds ==
    /\ pc = "main_patch"
    /\ \E returncode \in {0, 1} : pc' = IF returncode = 0 THEN "main_done" ELSE "main_exit"
    /\ UNCHANGED <<cmdVars, resolveVars, ioVars, listVars>>

\* apkm2apk up to its try
WorkerPrepare ==
    /\ worker = "apkm2apk"
    /\ fs' = WriteFile(RemoveFile(RemoveFile(fs, ConvertedPath(call.input)), ConvertTmp),
                       ConvertTmp, "empty")
    /\ worker' = "unzip"
    /\ UNCHANGED <<pc, cmdVars, resolveVars, metadata, listVars>>

\* apkm2apk: unzip; a return code other than 0 ends in err
WorkerUnzip ==
    /\ worker = "unzip"
    /\ \E returncode \in {0, 1}, extracted \in BOOLEAN :
          /\ returncode = 0 => extracted
          /\ fs' = IF extracted THEN WriteFile(fs, ConvertTmp, "extracted") ELSE fs
          /\ IF returncode = 0
             THEN /\ worker' = "merge"
                  /\ UNCHANGED result
             ELSE /\ worker' = "finally"
                  /\ result' = Future("RUNNING", "SystemExit", <<>>)
    /\ UNCHANGED <<pc, cmdVars, selected_ids, asked, metadata, listVars>>

\* apkm2apk: the merge, which writes the output file or not, and returns 0, fails or
\* runs out of time; then the return of the path if the file is there
WorkerMerge ==
    /\ worker = "merge"
    /\ \E ends \in {"ok", "failed", "timeout"}, written \in BOOLEAN :
          LET out == ConvertedPath(call.input)
          IN  /\ fs' = IF written THEN WriteFile(fs, out, "apk") ELSE fs
              /\ result' = IF ends = "ok"
                           THEN Future("RUNNING", "return", IF written THEN out ELSE <<>>)
                           ELSE Future("RUNNING", "SystemExit", <<>>)
    /\ worker' = "finally"
    /\ UNCHANGED <<pc, cmdVars, selected_ids, asked, metadata, listVars>>

\* apkm2apk: the finally clause; the future then holds the result or the exception
WorkerFinally ==
    /\ worker = "finally"
    /\ fs' = RemoveFile(fs, ConvertTmp)
    /\ result' = [result EXCEPT !.state = "FINISHED"]
    /\ worker' = "done"
    /\ UNCHANGED <<pc, cmdVars, selected_ids, asked, metadata, listVars>>

NextMain ==
    \/ MainSubmit
    \/ MainGetPkg
    \/ MainPkgUnzip
    \/ MainPkgFinally
    \/ MainListPatches
    \/ MainSelectPatches
    \/ MainWait
    \/ MainPatch
    \/ MainPatchEnds
    \/ WorkerPrepare
    \/ WorkerUnzip
    \/ WorkerMerge
    \/ WorkerFinally

SpecMain == InitMain /\ [][NextMain]_vars

----------------------------------------------------------------------------
(* The command builders called with selections of any kind *)

\* selections as a caller may hand them over: the kinds the resolver produces and
\* kinds it never produces
KindSelectionPool ==
    SelectionPool
    \cup { Sel("key", PyStr(tRemoveAds), <<>>),
           Sel("", PyInt(3), <<Opt(tFormat, PyStr(tPng))>>) }

KindCallPool ==
    [ cli_jar : {tCliJar}, rvp_path : {tRvp}, apk_path : {tInApk}, out_apk : {tOutApk},
      exclusive : BOOLEAN,
      selected : SeqsUpTo(KindSelectionPool, MaxSelections),
      sign : {NoSigning, [i \in 1..4 |-> SignValue(i)]},
      extra_args : {<<>>} ]

InitKinds ==
    /\ IdleIO
    /\ pc = "cmd_args"
    /\ call \in KindCallPool
    /\ cmd = NoCmd
    /\ builder = "none"
    /\ IdleList
    /\ IdleResolve

SpecKinds == InitKinds /\ [][NextCmd]_vars

----------------------------------------------------------------------------
(* Claims about the command builders (SpecCmd) *)

PrefixLen == IF builder = "build" THEN 6 ELSE 6 + Len(JVM_OPTS)

RECURSIVE GroupsLen(_, _)
GroupsLen(sels, n) ==
    IF n = 0 THEN 0 ELSE GroupsLen(sels, n - 1) + 2 + Len(sels[n].options)

\* position in cmd of the selector token of the j-th selection
GroupStart(j) ==
    PrefixLen + (IF call.exclusive THEN 1 ELSE 0) + GroupsLen(call.selected, j - 1) + 1

SigningGiven == {i \in 1..4 : call.sign[i].t = "str" /\ call.sign[i].s # <<>>}
SigningFlag(i) ==
    <<sKeystore, sKeystorePassword, sKeystoreEntryAlias, sKeystoreEntryPassword>>[i]
ExtraOfCall == IF builder = "build" THEN call.extra_args ELSE <<>>

IsScenarioCall ==
    /\ call.exclusive
    /\ call.selected = <<Sel("idx", PyInt(3), <<Opt(tFormat, PyStr(tPng))>>)>>
    /\ \A i \in 1..4 : call.sign[i] = PyNone
    /\ call.extra_args = <<>>
    /\ call.out_apk = tOutApk
    /\ call.apk_path = tInApk

ScenarioTokens ==
    << <<"--exclusive">>, <<"--ei">>, <<"3">>,
       <<"-O", "f", "o", "r", "m", "a", "t", "=", "p", "n", "g">>,
       <<"-o">>, tOutApk, tInApk >>

\* C3 as stated: in the literal scenario build.build_patch_command returns exactly
\* ["--exclusive", "--ei", "3", "-Oformat=png", "-o", "out.apk", "in.apk"].
C3_Original ==
    (pc = "cmd_done" /\ builder = "build" /\ IsScenarioCall) => cmd = ScenarioTokens

\* C3 amended: in the literal scenario build.build_patch_command returns the launcher
\* prefix ["java", "-jar", cli_jar, "patch", "-p", rvp_path] followed by exactly
\* ["--exclusive", "--ei", "3", "-Oformat=png", "-o", "out.apk", "in.apk"].
C3_Scenario ==
    (pc = "cmd_done" /\ builder = "build" /\ IsScenarioCall) =>
        cmd = << <<"java">>, <<"-jar">>, call.cli_jar, <<"patch">>, <<"-p">>, call.rvp_path >>
              \o ScenarioTokens

C3_Witness == pc = "cmd_done" /\ builder = "build" /\ IsScenarioCall

IsOptionTokenOf(tok, k) ==
    /\ Len(tok) >= 1 + Len(k)
    /\ SubSeq(tok, 1, 1 + Len(k)) = <<"-O">> \o k

RECURSIVE OptionCount(_)
OptionCount(sels) ==
    IF sels = <<>> THEN 0 ELSE Len(sels[1].options) + OptionCount(Tail(sels))

\* C5: every options entry yields exactly one token: '-O<key>' when the value is None
\* or the empty string, '-O<key>=<value>' otherwise; never '-O<key>=None' or '-O<key>='
\* for a null or empty value.
C5_NullOption ==
    pc = "cmd_done" =>
        /\ Cardinality({q \in 1..Len(cmd) : cmd[q] # <<>> /\ cmd[q][1] = "-O"})
              = OptionCount(call.selected)
        /\ \A j \in 1..Len(call.selected) :
              \A m \in 1..Len(call.selected[j].options) :
                  LET e == call.selected[j].options[m]
                      tok == cmd[GroupStart(j) + 1 + m]
                  IN  IF e.v.t = "none" \/ (e.v.t = "str" /\ e.v.s = <<>>)
                      THEN /\ tok = <<"-O">> \o e.k
                           /\ tok # <<"-O">> \o e.k \o <<"=", "N", "o", "n", "e">>
                           /\ tok # <<"-O">> \o e.k \o <<"=">>
                      ELSE tok = <<"-O">> \o e.k \o <<"=">> \o e.v.s

C5_Witness ==
    /\ pc = "cmd_done"
    /\ Len(call.selected) = 2
    /\ call.selected[1].options = <<Opt(tStrip, PyNone)>>
    /\ call.selected[2].options = <<Opt(tStrip, PyStr(<<>>)), Opt(tFormat, PyStr(tPng))>>
    /\ cmd[GroupStart(1) + 2] = <<"-O", "s", "t", "r", "i", "p">>
    /\ cmd[GroupStart(2) + 2] = <<"-O", "s", "t", "r", "i", "p">>

----------------------------------------------------------------------------
(* Claims about the listing parsers (SpecCatalog, SpecOptions, SpecSplit) *)

FilterRan == pc \in {"build_done", "patcher_done"} /\ Truthy(call.target_package)

\* the stripped lower-cased target equals the lower-cased form of a package of e
TargetNames(e) ==
    \E k \in 1..Len(e.packages) : Lower(e.packages[k]) = Lower(Strip(call.target_package.s))

Wanted(e) == TargetNames(e) \/ (call.include_universal /\ e.is_universal)

WantedAt == {i \in 1..Len(entries) : Wanted(entries[i])}

\* the k-th smallest element of a set of positions
KthOf(S, k) == CHOOSE i \in S : Cardinality({j \in S : j <= i}) = k

\* C1: after the filter ran with a non-empty target, the returned list is exactly
\* the sub-sequence, in catalog order, of the records whose packages hold the
\* stripped lower-cased target (compared in lower case) or that are universal while
\* include_universal is true; no universal record is returned when
\* include_universal is false and no record scoped only to other packages is
\* returned.
C1_Filter ==
    FilterRan =>
        /\ Len(patches) = Cardinality(WantedAt)
        /\ \A k \in 1..Len(patches) : patches[k] = entries[KthOf(WantedAt, k)]
        /\ \A k \in 1..Len(patches) : patches[k].is_universal => call.include_universal
        /\ \A k \in 1..Len(patches) :
              patches[k].packages # <<>> => TargetNames(patches[k])

\* a catalog of three records filtered with include_universal: the matching record
\* and the universal one are returned in catalog order, the record scoped to
\* another package is not
C1_Witness ==
    /\ FilterRan
    /\ call.include_universal
    /\ Len(entries) = 3
    /\ patches = <<entries[1], entries[3]>>
    /\ TargetNames(entries[1])
    /\ entries[2].packages # <<>>
    /\ entries[3].is_universal

\* C2: every record of the three parsers has its universal flag true exactly when
\* its packages list is empty.
C2_Universal ==
    /\ pc \in {"build_entries", "build_done", "patcher_entries", "patcher_done"} =>
          /\ \A i \in 1..Len(entries) :
                entries[i].is_universal <=> (Len(entries[i].packages) = 0)
          /\ \A i \in 1..Len(patches) :
                patches[i].is_universal <=> (Len(patches[i].packages) = 0)
    /\ pc = "run_done" =>
          \A i \in 1..Len(patches) : patches[i].universal <=> (Len(patches[i].packages) = 0)

\* the patcher parsed blocks declaring no package, one package and several
C2_Witness ==
    /\ pc = "patcher_entries"
    /\ \E i, j, k \in 1..Len(entries) :
          /\ Len(entries[i].packages) = 0 /\ entries[i].is_universal
          /\ Len(entries[j].packages) = 1 /\ ~entries[j].is_universal
          /\ Len(entries[k].packages) > 1 /\ ~entries[k].is_universal

NoDuplicates(xs) == \A i, j \in 1..Len(xs) : i # j => xs[i] # xs[j]

\* C9: the packages list of every record of the three parsers holds no package
\* identifier twice (a list without duplicates built by appending is in order of
\* first discovery).
C9_OrderedSet ==
    /\ pc \in {"build_entries", "build_done", "patcher_entries", "patcher_done"} =>
          \A i \in 1..Len(entries) : NoDuplicates(entries[i].packages)
    /\ pc = "run_done" =>
          \A i \in 1..Len(patches) : NoDuplicates(patches[i].packages)

\* lines of the text that hold an index header
HeaderLines == {i \in 1..Len(text) : IsIndexHeader(text, i)}

\* first line of the first match: the header line, or the first of the blank lines
\* right above it
FirstStart ==
    LET h == CHOOSE i \in HeaderLines : \A j \in HeaderLines : i <= j
    IN  CHOOSE q \in 1..h :
            /\ \A m \in q..(h - 1) : IsBlankLine(text[m])
            /\ q = 1 \/ ~IsBlankLine(text[q - 1])

SplitRan == pc \in {"build_blocks", "patcher_blocks"} /\ HeaderLines # {}

\* C10 as stated: N matches give N non-empty blocks whose concatenation is the
\* whole text, text before the first header included.
C10_Original ==
    SplitRan =>
        /\ Len(blocks) = Cardinality(HeaderLines)
        /\ \A k \in 1..Len(blocks) : blocks[k] # <<>>
        /\ Concat(blocks) = text

\* C10: N matches give N non-empty blocks, in order, whose concatenation is the
\* text from the start of the first match to the end; the lines before the first
\* match are in no block.
C10_Split ==
    SplitRan =>
        /\ Len(blocks) = Cardinality(HeaderLines)
        /\ \A k \in 1..Len(blocks) : blocks[k] # <<>>
        /\ Concat(blocks) = SubSeq(text, FirstStart, Len(text))

\* a text with lines before its first header and two headers was split
C10_Witness ==
    /\ SplitRan
    /\ FirstStart > 1
    /\ Cardinality(HeaderLines) = 2
    /\ Len(blocks) = 2

\* the block of SpecOptions is the whole text
IsSectionHeader(i) ==
    HdrOnly(text[i], {"Options:", "Option:"}) \/ HdrOnly(text[i], {"Compatible packages:"})

\* line i lies in an Options section
InOptionsSection(i) ==
    /\ ~IsSectionHeader(i)
    /\ \E o \in 1..(i - 1) :
          /\ HdrOnly(text[o], {"Options:", "Option:"})
          /\ \A m \in (o + 1)..(i - 1) : ~IsSectionHeader(m)

KeyLines == {i \in 1..Len(text) : InOptionsSection(i) /\ text[i].h = "Key:"}
KeptKeyLines == {i \in KeyLines : Strip(text[i].v) # <<>>}

\* lines after Key: line i up to the next Key: line or the end of the section
SchemaLines(i) ==
    {j \in (i + 1)..Len(text) : \A m \in (i + 1)..j : ~IsSectionHeader(m) /\ text[m].h # "Key:"}

\* the field the lines of the schema opened on line i give it: the value of the
\* last line with header h, None without one
FieldOf(i, h) ==
    LET js == {j \in SchemaLines(i) : text[j].h = h /\ text[j].v # <<>>}
    IN  IF js = {} THEN PyNone
        ELSE PyStr(Strip(text[CHOOSE j \in js : \A m \in js : m <= j].v))

\* C8: the option list has one schema per Key: line with a non-empty key, in line
\* order, and the default and type of each schema are those of the Default: and
\* Type: lines between its Key: line and the next Key: line or section end.
C8_OptionFlush ==
    pc = "build_entries" =>
        /\ Len(entries) = 1
        /\ LET os == entries[1].options_struct
           IN  /\ Len(os) = Cardinality(KeptKeyLines)
               /\ \A k \in 1..Len(os) :
                     LET i == KthOf(KeptKeyLines, k)
                     IN  /\ os[k].key = Strip(text[i].v)
                         /\ os[k].default = FieldOf(i, "Default:")
                         /\ os[k].type = FieldOf(i, "Type:")

----------------------------------------------------------------------------
(* Claims about the Selection Resolver (SpecResolve) *)

Resolving == pc \in {"build_resolve", "build_cmd", "patcher_resolve", "patcher_resolved"}

\* C6: while the operator has not cancelled, the i-th selection built carries the
\* kind and value of the i-th raw choice, and when the resolver has returned there
\* is exactly one selection per raw choice, whatever the order of the catalog.
C6_SelectionOrder ==
    /\ Resolving =>
          /\ Len(result) <= Len(selected_ids)
          /\ \A i \in 1..Len(result) :
                result[i].by = selected_ids[i][1] /\ result[i].value = selected_ids[i][2]
    /\ pc \in {"build_cmd", "patcher_resolved"} => Len(result) = Len(selected_ids)

\* the choices ('idx', 3), ('name', "Remove ads") were resolved, with questions
\* asked, against a catalog that lists the named record before the record of index 3
C6_Witness ==
    /\ pc = "build_cmd"
    /\ selected_ids = << <<"idx", PyInt(3)>>, <<"name", PyStr(tRemoveAds)>> >>
    /\ Len(entries) = 2
    /\ entries[1].name = PyStr(tRemoveAds) /\ entries[1].index = PyInt(5)
    /\ entries[2].index = PyInt(3)
    /\ Len(result) = 2
    /\ result[1].options # <<>> /\ result[2].options # <<>>
    /\ \E i, j \in 1..Len(asked) : i < j /\ asked[i].choice = 1 /\ asked[j].choice = 2

\* no record of the catalog has the index, or exactly the name, of the i-th choice
Unresolvable(i) ==
    \A k \in 1..Len(entries) :
        IF selected_ids[i][1] = "idx"
        THEN entries[k].index # selected_ids[i][2]
        ELSE entries[k].name # selected_ids[i][2]

SelectorOf(kind) == IF kind = "idx" THEN sEi ELSE sE

\* C7: for a choice that matches no record, build.prompt_options_for_selected asks
\* no question and emits the selection with its kind, its raw value and no options;
\* build_patch_command then emits for it the selector token and str(raw value) and
\* nothing else.
C7_Unresolvable ==
    /\ pc \in {"build_resolve", "build_cmd"} =>
          \A i \in 1..Len(result) :
              Unresolvable(i) =>
                  /\ result[i] = Sel(selected_ids[i][1], selected_ids[i][2], <<>>)
                  /\ \A q \in 1..Len(asked) : asked[q].choice # i
    /\ pc = "build_cmd" =>
          \A i \in 1..Len(result) :
              Unresolvable(i) =>
                  /\ cmd[GroupStart(i)] = SelectorOf(selected_ids[i][1])
                  /\ cmd[GroupStart(i) + 1] = Str(selected_ids[i][2])
                  /\ ~IsOptionTokenOf(cmd[GroupStart(i) + 2], <<>>)

\* a name that differs from a record's name by case only was chosen after a choice
\* that resolved and had a question asked; the command was built
C7_Witness ==
    /\ pc = "build_cmd"
    /\ Len(selected_ids) = 2
    /\ ~Unresolvable(1)
    /\ \E q \in 1..Len(asked) : asked[q].choice = 1
    /\ selected_ids[2] = <<"name", PyStr(Lower(tRemoveAds))>>
    /\ \E k \in 1..Len(entries) : entries[k].name = PyStr(tRemoveAds)
    /\ Unresolvable(2)
    /\ cmd[GroupStart(2)] = sE
    /\ cmd[GroupStart(2) + 1] = Lower(tRemoveAds)

----------------------------------------------------------------------------
(* Claims about the block parsers on arbitrary lines (SpecParse) *)

NoIndexHeader == MatchStarts(text, 1) = <<>>

\* the text holds a character that is not white space
NonBlankText == Strip(JoinLines(text)) # <<>>

\* C11: for a non-blank text without an index header, build.parse_patches_from_text
\* and patcher.parse_patches each return a catalog of exactly one record, built
\* from the whole text.
C11_Degenerate ==
    (NoIndexHeader /\ NonBlankText) =>
        /\ pc = "build_entries" =>
              Len(entries) = 1 /\ entries[1].raw = StripNewlines(text)
        /\ pc = "patcher_empty" => Len(patches) = 1

\* blocks that are not skipped (build.py:206-208), and blocks holding a character
\* that is not white space
KeptBlocks == {k \in 1..Len(blocks) : StripNewlines(blocks[k]) # <<>>}
NonBlankBlocks == {k \in 1..Len(blocks) : Strip(JoinLines(blocks[k])) # <<>>}

\* the locals of the line scan of a block after its first k lines
ScanAfter(block, k) == ScanAll(ScanInit(block), SubSeq(block, 1, k))

HasLine(block, H) == \E i \in 1..Len(block) : block[i].h \in H

\* C12: the line scan of every block advances its line index by exactly one on
\* every iteration and ends after visiting each line once; every non-blank block
\* gives exactly one record, the records follow block order, and a field whose
\* header the block lacks stays unset or empty.
C12_Totality ==
    pc = "build_entries" =>
        /\ \A b \in 1..Len(blocks) :
              /\ \A k \in 0..(Len(blocks[b]) - 1) :
                    /\ ScanAfter(blocks[b], k).i = k
                    /\ ScanLine(ScanAfter(blocks[b], k), blocks[b][k + 1]).i = k + 1
              /\ ScanAfter(blocks[b], Len(blocks[b])).i = Len(blocks[b])
        /\ NonBlankBlocks \subseteq KeptBlocks
        /\ Len(entries) = Cardinality(KeptBlocks)
        /\ \A k \in 1..Len(entries) :
              LET block == blocks[KthOf(KeptBlocks, k)]
                  e == entries[k]
              IN  /\ e.raw = StripNewlines(block)
                  /\ ~HasLine(block, {"Index:"}) => e.index = PyNone
                  /\ ~HasLine(block, {"Name:"}) => e.name = PyNone
                  /\ ~HasLine(block, {"Description:"}) => e.description = PyNone
                  /\ ~HasLine(block, {"Enabled:"}) => e.enabled = PyNone
                  /\ ~HasLine(block, {"Packages:", "Package:", "Package name:"}) =>
                        e.packages = <<>> /\ e.compatible_versions = <<>>
                  /\ ~HasLine(block, {"Key:"}) => e.options_struct = <<>>
                  /\ ~HasLine(block, {"Options:", "Option:"}) => e.options_lines = <<>>

\* a text of two blocks was parsed: the first has its index header only, the second
\* has an Options section with a key; each gave one record, in block order
C12_Witness ==
    /\ pc = "build_entries"
    /\ Len(blocks) = 2
    /\ Len(entries) = 2
    /\ entries[1].index = PyInt(1) /\ entries[1].options_struct = <<>>
    /\ entries[2].index = PyInt(1) /\ Len(entries[2].options_struct) = 1
    /\ entries[2].name = PyNone

----------------------------------------------------------------------------
(* Claims about option binding (SpecResolve) *)

\* the record the i-th choice resolves to, as a sequence of at most one record
EntryOfChoice(i) == LookupEntry(selected_ids[i][1], selected_ids[i][2], entries)

HasStructuredOptions(i) == EntryOfChoice(i) # <<>> /\ EntryOfChoice(i)[1].options_struct # <<>>

\* the answers the operator gave to question q about key k of the i-th choice
AnswersTo(i, q, k) ==
    {asked[j].answer : j \in {m \in 1..Len(asked) :
                                 asked[m].choice = i /\ asked[m].q = q /\ asked[m].key = k}}

\* the values bound to key k in an options map
BoundTo(opts, k) == {opts[j].v : j \in {m \in 1..Len(opts) : opts[m].k = k}}

IsNonEmptyStr(v) == v.t = "str" /\ v.s # <<>>

\* C13: for a choice that resolved to a record with structured options: a declined
\* option is absent from the options map of the selection; an option set with an
\* empty answer whose schema has no default is bound to None; an option set with a
\* non-empty answer is bound to exactly that string, also when it equals the
\* default of the schema; and every key of the map is the key of a schema of that
\* record.
C13_OptionBinding ==
    pc \in {"build_resolve", "build_cmd"} =>
        \A i \in 1..Len(result) :
            HasStructuredOptions(i) =>
                LET os == EntryOfChoice(i)[1].options_struct
                    opts == result[i].options
                IN  /\ \A j \in 1..Len(opts) : \E o \in 1..Len(os) : opts[j].k = os[o].key
                    /\ \A o \in 1..Len(os) :
                          LET k == os[o].key
                              sel == AnswersTo(i, "select", k)
                              txt == AnswersTo(i, "text", k)
                          IN  /\ AnswersTo(i, "confirm", k) # {}
                              /\ AnswersTo(i, "confirm", k) \subseteq {PyBool(FALSE), PyNone} =>
                                    BoundTo(opts, k) = {}
                              /\ \A v \in txt :
                                    /\ IsNonEmptyStr(v) => BoundTo(opts, k) = {v}
                                    /\ (EmptyAnswer(v) /\ os[o].default = PyNone) =>
                                          BoundTo(opts, k) = {PyNone}
                              /\ \A v \in sel :
                                    (IsNonEmptyStr(v) /\ v # PyStr(sCustom)) =>
                                        BoundTo(opts, k) = {v}

\* the first choice resolved to the record whose option 'format' has the default
\* 'png' and the operator typed 'png'; the second resolved to the record whose
\* option 'size' has no default and the operator chose <custom> and typed nothing
C13_Witness ==
    /\ pc = "build_cmd"
    /\ Len(result) = 2
    /\ HasStructuredOptions(1) /\ HasStructuredOptions(2)
    /\ EntryOfChoice(1)[1].options_struct[1].default = PyStr(tPng)
    /\ AnswersTo(1, "text", tFormat) = {PyStr(tPng)}
    /\ result[1].options = <<Opt(tFormat, PyStr(tPng))>>
    /\ EntryOfChoice(2)[1].options_struct[1].default = PyNone
    /\ AnswersTo(2, "select", tSize) = {PyStr(sCustom)}
    /\ AnswersTo(2, "text", tSize) = {PyStr(<<>>)}
    /\ result[2].options = <<Opt(tSize, PyNone)>>

----------------------------------------------------------------------------
(* Claims about the filter applied twice, and without a target (SpecRefilter) *)

\* C14: filtering the list a filter returned, with the same target and the same
\* include_universal flag, returns the same records in the same order.
C14_Idempotent ==
    [][pc' \in {"build_refiltered", "patcher_refiltered"} => patches' = patches]_vars

\* a catalog of three records was filtered to two records (a matching one and a
\* universal one), and that list was filtered again
C14_Witness ==
    /\ pc \in {"build_refiltered", "patcher_refiltered"}
    /\ Truthy(call.target_package)
    /\ call.include_universal
    /\ Len(entries) = 3
    /\ Len(patches) = 2
    /\ patches[1].packages # <<>> /\ patches[2].is_universal

NoTargetGiven == pc \in {"build_done", "patcher_done"} /\ ~Truthy(call.target_package)

\* the index written on the header line that opens block k
IndexOfBlock(k) == PyInt(ParseInt(Strip(blocks[k][1].v)))

\* C15: when the target package is None or the empty string, both parsers return
\* every parsed record, one per non-blank block and in block order, whatever
\* include_universal is and whatever packages the records declare.
C15_NoTarget ==
    NoTargetGiven =>
        /\ patches = entries
        /\ Len(patches) = Cardinality(NonBlankBlocks)
        /\ \A k \in 1..Len(patches) :
              patches[k].index = IndexOfBlock(KthOf(NonBlankBlocks, k))

\* the empty string was given as target with include_universal false, and the
\* three records returned are universal, scoped to one package and scoped to two
C15_Witness ==
    /\ NoTargetGiven
    /\ call.target_package = PyStr(<<>>)
    /\ ~call.include_universal
    /\ Len(patches) = 3
    /\ patches[1].is_universal
    /\ Len(patches[2].packages) = 1
    /\ Len(patches[3].packages) = 2

----------------------------------------------------------------------------
(* Claims about signing parameters and selector kinds (SpecCmd, SpecKinds) *)

SigningFlagText(i) ==
    << <<"--keystore">>, <<"--keystore-password">>,
       <<"--keystore-entry-alias">>, <<"--keystore-entry-password">> >>[i]

PositionsOf(tok) == {p \in 1..Len(cmd) : cmd[p] = tok}

\* C16: each of the four signing flags is in the returned list if and only if its
\* own parameter is a non-empty string, whatever the other three are; it is there
\* once and the next token is the value of the parameter; the flags that are there
\* stand in the order keystore, password, alias, entry password; with no parameter
\* given no token of the list is a signing flag.
C16_Signing ==
    pc = "cmd_done" =>
        /\ \A i \in 1..4 :
              /\ (PositionsOf(SigningFlagText(i)) # {}) <=> (i \in SigningGiven)
              /\ i \in SigningGiven =>
                    /\ Cardinality(PositionsOf(SigningFlagText(i))) = 1
                    /\ \A p \in PositionsOf(SigningFlagText(i)) :
                          p < Len(cmd) /\ cmd[p + 1] = call.sign[i].s
        /\ \A i, j \in SigningGiven :
              i < j => \A p \in PositionsOf(SigningFlagText(i)),
                          q \in PositionsOf(SigningFlagText(j)) : p + 1 < q
        /\ SigningGiven = {} => \A p \in 1..Len(cmd), i \in 1..4 : cmd[p] # SigningFlagText(i)

\* the keystore password is the empty string and the other three parameters are
\* given: three pairs are in the list of patcher.build_patch_command, in order
C16_Witness ==
    /\ pc = "cmd_done" /\ builder = "patcher"
    /\ call.sign[2] = PyStr(<<>>)
    /\ SigningGiven = {1, 3, 4}
    /\ \E p \in 1..(Len(cmd) - 5) :
          SubSeq(cmd, p, p + 5) =
              << <<"--keystore">>, call.sign[1].s, <<"--keystore-entry-alias">>, call.sign[3].s,
                 <<"--keystore-entry-password">>, call.sign[4].s >>

\* selections of the call whose kind is neither 'idx' nor 'name'
UnresolvedKinds == {j \in 1..Len(call.selected) : call.selected[j].by \notin {"idx", "name"}}

\* C17: when a selection of the call has a kind that is neither 'idx' nor 'name',
\* build_patch_command does not return an argument list that holds a selector
\* token for that selection (it raises instead).
C17_FailFast ==
    pc = "cmd_done" =>
        \A j \in UnresolvedKinds :
            ~(/\ GroupStart(j) < Len(cmd)
              /\ cmd[GroupStart(j)] \in {<<"--ei">>, <<"-e">>}
              /\ cmd[GroupStart(j) + 1] = Str(call.selected[j].value))

----------------------------------------------------------------------------
(* Claims about the Options and Compatible packages sections (SpecOptions, SpecSections) *)

\* the keys of the schemas of a record, in list order
SchemaKeys(e) == [o \in 1..Len(e.options_struct) |-> e.options_struct[o].key]

\* C18: no two schemas of the option list of a record have the same key (of two
\* Key: lines with the same key only the first gives a schema).
C18_KeyUnique ==
    pc = "build_entries" => \A i \in 1..Len(entries) : NoDuplicates(SchemaKeys(entries[i]))

\* the header lines that end a list of possible values
RecognizedHeader(l) ==
    l.h \in {"Default:", "Type:", "Required:", "Title:", "Description:", "Key:",
             "Options:", "Option:", "Compatible packages:"}

\* lines of the schema opened on Key: line i that follow a 'Possible values:' header
\* of that schema with no recognized header in between, and are neither blank nor
\* a header themselves
ValueLines(i) ==
    {j \in SchemaLines(i) :
        /\ ~IsBlankLine(text[j])
        /\ ~RecognizedHeader(text[j])
        /\ ~HdrOnly(text[j], {"Possible values:"})
        /\ \E p \in SchemaLines(i) :
              /\ p < j
              /\ HdrOnly(text[p], {"Possible values:"})
              /\ \A m \in (p + 1)..(j - 1) : ~RecognizedHeader(text[m])}

\* the stripped text of the lines of a set, in line order
LinesOf(S) == [k \in 1..Cardinality(S) |-> Strip(Render(text[KthOf(S, k)]))]

\* C19: the possible values of each schema are the non-blank lines that follow a
\* 'Possible values:' header of the schema up to the next recognized header; a line
\* after such a header is not a value unless a new 'Possible values:' header came
\* first, and no header line is stored as a value.
C19_PossibleValues ==
    pc = "build_entries" =>
        /\ Len(entries) = 1
        /\ LET os == entries[1].options_struct
           IN  /\ Len(os) = Cardinality(KeptKeyLines)
               /\ \A k \in 1..Len(os) :
                     os[k].possible_values = LinesOf(ValueLines(KthOf(KeptKeyLines, k)))

\* C20: in every record the keys of compatible_versions are exactly the
\* identifiers of packages, for Packages: lines and Package: lines of any value,
\* blank ones included.
C20_VersionKeys ==
    pc = "build_entries" =>
        \A i \in 1..Len(entries) :
            DictKeys(entries[i].compatible_versions) =
                {entries[i].packages[k] : k \in 1..Len(entries[i].packages)}

----------------------------------------------------------------------------
(* Claims about blank blocks (SpecParse) *)

\* C21: neither parser produces a record from a block that is empty or holds only
\* white space: the records are as many as the blocks holding another character,
\* and an empty or whitespace-only text gives an empty catalog.
C21_BlankBlocks ==
    /\ pc \in {"build_entries", "patcher_entries"} =>
          Len(entries) = Cardinality(NonBlankBlocks)
    /\ pc \in {"build_entries", "patcher_entries"} /\ ~NonBlankText => entries = <<>>
    /\ pc = "patcher_empty" /\ ~NonBlankText => patches = <<>>

----------------------------------------------------------------------------
(* Claims about descriptions (SpecDescription); the block is the whole text *)

\* Description: lines of the record itself, and those of an option schema
RecordDescLines == {i \in 1..Len(text) : text[i].h = "Description:" /\ ~InOptionsSection(i)}
OptionDescLines ==
    {i \in 1..Len(text) :
        /\ text[i].h = "Description:"
        /\ text[i].ind # <<>>
        /\ InOptionsSection(i)
        /\ \E k \in KeyLines : i \in SchemaLines(k)}

FieldHeaders == {"Enabled:", "Options:", "Index:", "Name:", "Packages:", "Compatible packages:"}

\* the text from after the header of line d up to the next field header or the end
\* of the block, trimmed
DescriptionFrom(d) ==
    LET stops == {z \in (d + 1)..Len(text) : text[z].h \in FieldHeaders}
        z == IF stops = {} THEN Len(text) + 1 ELSE CHOOSE y \in stops : \A g \in stops : y <= g
    IN  Strip(text[d].v \o <<"\n">> \o JoinLines(SubSeq(text, d + 1, z - 1)))

FirstOf(S) == CHOOSE i \in S : \A j \in S : i <= j

\* C22: when the first Description: line of a block is a line of the record, the
\* description of the record, in both parsers, is the trimmed text from after that
\* header up to the next field header or the end of the block, over all its lines.
C22_MultiLine ==
    pc \in {"build_entries", "patcher_entries"} =>
        /\ Len(entries) = 1
        /\ (RecordDescLines # {} /\ \A o \in OptionDescLines : FirstOf(RecordDescLines) < o) =>
              entries[1].description = PyStr(DescriptionFrom(FirstOf(RecordDescLines)))

\* C25: for a block whose only Description: lines are indented lines of option
\* schemas, the description of the record stays unset in both parsers.
C25_OptionDescription ==
    pc \in {"build_entries", "patcher_entries"} =>
        ((OptionDescLines # {} /\ \A i \in 1..Len(text) : text[i].h = "Description:" => i \in OptionDescLines)
            => entries[1].description = PyNone)

----------------------------------------------------------------------------
(* Claims about version lists (SpecVersions); the block is the whole text *)

\* line i lies in a 'Compatible packages:' section: after its header, before the
\* next section header
InCompatSection(i) ==
    /\ ~IsSectionHeader(i)
    /\ \E c \in 1..(i - 1) :
          /\ HdrOnly(text[c], {"Compatible packages:"})
          /\ \A m \in (c + 1)..i : ~IsSectionHeader(m)

PackageLines == {i \in 1..Len(text) : InCompatSection(i) /\ text[i].h = "Package:"}

\* the lines that are versions of the package of Package: line p: the non-blank
\* lines of the section after a 'Compatible versions:' sub-header that follows p,
\* before the next Package: line
VersionLinesOf(p) ==
    {j \in (p + 1)..Len(text) :
        /\ \A m \in (p + 1)..j : InCompatSection(m) /\ text[m].h # "Package:"
        /\ ~HdrOnly(text[j], {"Compatible versions:"})
        /\ ~IsBlankLine(text[j])
        /\ \E h \in (p + 1)..(j - 1) : HdrOnly(text[h], {"Compatible versions:"})}

\* the version lines of every Package: line that names package q, in line order
VersionsOfPackage(q) ==
    LinesOf(UNION {VersionLinesOf(p) : p \in {x \in PackageLines : Strip(text[x].v) = q}})

\* C23: the version list of every package of the record holds, in line order, the
\* version lines that follow a 'Compatible versions:' sub-header of a Package: line
\* naming it, up to the next Package: line or the end of the section, and nothing
\* else.
C23_VersionAttribution ==
    pc = "build_entries" =>
        /\ Len(entries) = 1
        /\ LET cv == entries[1].compatible_versions
           IN  \A k \in 1..Len(cv) : cv[k].v = VersionsOfPackage(cv[k].k)

\* a package with a version, and a second package whose line ended the collection:
\* the line after it is no version of either
C23_Witness ==
    /\ pc = "build_entries"
    /\ text = <<IndexLine("1"), CompatHeader, PackageLine(tAB),
                Line(<<"\t">>, "Compatible versions:", <<>>),
                Line(<<"\t", "\t">>, "", <<"1">>),
                PackageLine(tAC),
                Line(<<"\t", "\t">>, "", <<"2">>)>>
    /\ entries[1].compatible_versions = <<[k |-> tAB, v |-> <<<<"1">>>>], [k |-> tAC, v |-> <<>>]>>

----------------------------------------------------------------------------
(* Claims about the heuristic keys of raw option lines (SpecFallback) *)

\* the lines of the call that the pattern matches with a key no earlier line has
FirstKeyLines ==
    {i \in 1..Len(call.options_lines) :
        /\ PatMatch(call.options_lines[i]) # <<>>
        /\ \A j \in 1..(i - 1) :
              PatMatch(call.options_lines[j]) = <<>>
              \/ PatMatch(call.options_lines[j])[1].key # PatMatch(call.options_lines[i])[1].key}

\* the keys of the confirmations asked for the i-th choice, in the order asked
RECURSIVE ConfirmKeys(_, _)
ConfirmKeys(i, qs) ==
    IF qs = <<>> THEN <<>>
    ELSE (IF qs[1].choice = i /\ qs[1].q = "confirm" THEN <<qs[1].key>> ELSE <<>>)
         \o ConfirmKeys(i, Tail(qs))

FreeQuestionAsked(i) == \E j \in 1..Len(asked) : asked[j].choice = i /\ asked[j].key = <<>>

\* C24: parse_option_keys_from_lines returns, in the order of the lines, the triple
\* of the first line of every key and nothing else, so that no key comes twice;
\* and for a record that has structured options, or no raw option lines, the
\* resolver asks about the keys of its schemas only and never the free-form
\* question.
C24_Fallback ==
    /\ pc = "keys_done" =>
          /\ Len(result) = Cardinality(FirstKeyLines)
          /\ \A k \in 1..Len(result) :
                result[k] = PatMatch(call.options_lines[KthOf(FirstKeyLines, k)])[1]
          /\ \A k, m \in 1..Len(result) : result[k].key = result[m].key => k = m
    /\ pc = "build_resolve" =>
          \A i \in 1..Len(result) :
              LET e == EntryOfChoice(i)[1]
              IN  (e.options_struct # <<>> \/ e.options_lines = <<>>) =>
                     /\ ~FreeQuestionAsked(i)
                     /\ ConfirmKeys(i, asked) =
                            [k \in 1..Len(e.options_struct) |-> e.options_struct[k].key]

\* the key 'size' on two lines with different type hints and defaults, and a second
\* key: the triple of 'size' is the one of its first line
C24_Witness ==
    /\ pc = "keys_done"
    /\ call.options_lines =
          << tSize \o <<" ", "(", "T", ")", " ">> \o sDefaultWord \o <<"=", "y">>,
             tStrip,
             tSize \o <<" ", "(", "S", ")", " ">> \o sDefaultWord \o <<"=", "x">> >>
    /\ PatMatch(call.options_lines[3]) =
          <<[key |-> tSize, type_hint |-> PyStr(<<"S">>), default |-> PyStr(<<"x">>)]>>
    /\ result = <<[key |-> tSize, type_hint |-> PyStr(<<"T">>), default |-> PyStr(<<"y">>)],
                  [key |-> tStrip, type_hint |-> PyNone, default |-> PyNone]>>

----------------------------------------------------------------------------
(* Claims about run.select_patches (SpecSelect) *)

\* the keys of the text questions asked for the i-th checked box, in the order asked
RECURSIVE TextKeys(_, _)
TextKeys(i, qs) ==
    IF qs = <<>> THEN <<>>
    ELSE (IF qs[1].choice = i /\ qs[1].q = "text" THEN <<qs[1].key>> ELSE <<>>)
         \o TextKeys(i, Tail(qs))

\* C26: for every checked box, the options asked about are the options of the
\* record of that box, and the options attached to its selection are among them.
C26_ChoiceBinding ==
    pc = "run_selected" =>
        /\ Len(result) = Len(selected_ids)
        /\ \A i \in 1..Len(selected_ids) :
              LET e == patches[selected_ids[i].pos]
              IN  /\ TextKeys(i, asked) = [k \in 1..Len(e.options) |-> e.options[k].key]
                  /\ \A k \in 1..Len(result[i].opts) :
                        \E m \in 1..Len(e.options) : e.options[m].key = result[i].opts[k].k

----------------------------------------------------------------------------
(* Claims about the cache (SpecCache) *)

\* the step is a call of download_or_use_cached that went online for a tag that is
\* not cached, and whose download raised
DownloadRaised ==
    /\ call'.n = call.n + 1
    /\ call'.fn = "download_or_use_cached"
    /\ ~call'.args.offline_mode
    /\ ~IsCached(metadata, fs, call'.args.cache_key, call'.args.tag)
    /\ call'.args.download # "ok"

\* C27: when the download of such a call raises while a cached file of the key
\* exists, the call returns the path of that file, or of its copy in the output
\* directory, and leaves the metadata as they were; it raises only when no cached
\* file exists.
C27_FallBack ==
    [][DownloadRaised /\ GetCachedPath(metadata, fs', call'.args.cache_key) # <<>> =>
          /\ pc' = "cache_returned"
          /\ result'.path = IF call'.args.output_dir
                            THEN OutputPath(call'.args.filename)
                            ELSE GetCachedPath(metadata, fs', call'.args.cache_key)[1]
          /\ metadata' = metadata]_vars

\* C28: a path returned as a cache hit holds an asset written to its end, and the
\* file the metadata record for a key holds the asset of the recorded tag, written
\* to its end.
C28_Integrity ==
    /\ pc = "cache_returned" /\ result.by \in {"hit", "offline"} =>
          ContentOf(fs, result.path).complete
    /\ \A i \in 1..Len(metadata) :
          Exists(fs, CachePath(metadata[i].v.filename)) =>
              ContentOf(fs, CachePath(metadata[i].v.filename)) = Asset(metadata[i].v.tag, TRUE)

----------------------------------------------------------------------------
(* Claims about the conversion of .apkm files (SpecConvert) *)

\* C29: when convert_apkm_to_apk has returned or raised after it created the
\* directory '<stem>_temp', that directory is not on disk any more.
C29_TempRemoved ==
    pc \in {"convert_returned", "convert_raised"} /\ result.by # "FileNotFoundError" =>
        ~Exists(fs, ExtractDir)


----------------------------------------------------------------------------
(* Claims about the main program and the background conversion (SpecMain) *)

PatchStarted == cmd # NoCmd

ConversionSucceeded ==
    /\ worker = "done"
    /\ result.state = "FINISHED"
    /\ result.by = "return"
    /\ result.path # <<>>

\* the conversion has ended in err, has returned None, or the wait for it timed out
ConversionFailed ==
    \/ result.state = "FINISHED" /\ (result.by = "SystemExit" \/ result.path = <<>>)
    \/ call.waited = "timeout"

\* the file, if any, at path is the same before and after the step
Untouched(path) == {f \in fs' : f.path = path} = {f \in fs : f.path = path}

\* C30: for an .apkm input, under every interleaving of apkm2apk with the main
\* program, the patch command has started only when the conversion has completed
\* with a path, the APK path of the command is that path, and the command never
\* starts once the conversion has failed, returned no file or timed out; the two
\* temporary directories differ, no step of the main program changes
\* .cache/apkm_tmp and no step of apkm2apk changes .cache/apkm_pkg.
C30_PatchWaits ==
    /\ [](IsApkm /\ PatchStarted =>
              /\ ConversionSucceeded
              /\ cmd[Len(cmd)] = PathStr(result.path)
              /\ Exists(fs, result.path))
    /\ [](IsApkm /\ ConversionFailed => ~PatchStarted)
    /\ ConvertTmp # PkgTmp
    /\ [][/\ pc' # pc => Untouched(ConvertTmp)
          /\ worker' # worker /\ pc' = pc => Untouched(PkgTmp)]_vars

\* the patch command has started after the conversion returned the converted
\* file, with that file as its APK
C30_Witness ==
    /\ IsApkm
    /\ pc = "main_patch"
    /\ ConversionSucceeded
    /\ cmd = RunBuildCmd(tCliJar, tRvp, <<"in", "/", "x", ".apk">>,
                         <<"output", "/", "x", "_patched", ".apk">>, call.selected)

====
